---- MODULE Spec2Model ----
(***************************************************************************)
(* Budget accounting core of unified-budget-tracker: the record store      *)
(* (transactions, monthly_budgets, budget_allocations), the carry-forward  *)
(* calculator (lib/budgetUtils), the Goal Allocation page and the          *)
(* BudgetIncomeAllocation component.                                       *)
(*                                                                         *)
(* Calendar dates are integers: month m has the days                       *)
(* m*DaysPerMonth .. m*DaysPerMonth + DaysPerMonth - 1, so date order is   *)
(* integer order, as the order of "yyyy-MM-dd" strings is.  A Date object  *)
(* that only ever passes through startOfMonth / endOfMonth / format is     *)
(* kept as its month index.  Amounts are whole numbers of the smallest     *)
(* currency unit.                                                          *)
(***************************************************************************)
EXTENDS Integers, Sequences, FiniteSets, Bags, TLC

\* ---- bounds of the model ------------------------------------------------
MaxMonth == 1
DaysPerMonth == 2
MaxAmount == 2

\* ---- universe -----------------------------------------------------------
NULL == "null"
ALL == "all"
Users == {"u1", "u2"}
Households == {"h1"}
Months == 0..MaxMonth
Dates == 0..((MaxMonth + 1) * DaysPerMonth - 1)
Amounts == 1..MaxAmount

\* lib/constants: "Other" is an income category and an expense category.
INCOME_CATEGORIES == {"Salary", "Other"}
EXPENSE_CATEGORIES == {"Groceries", "Other"}

VARIABLES
    tz,                 \* the browser's time zone: "utc", "west" (behind UTC) or "east" (ahead of UTC)
    transactions,       \* bag of transaction rows
    monthly_budgets,    \* set of budget goal rows (with id)
    budget_allocations, \* bag of allocation rows
    household_members,  \* set of membership rows
    households,         \* set of household rows
    cf,                 \* the last call of the carry-forward calculator and its result
    session,            \* the signed-in user of each client (browser)
    route,              \* the page each client shows
    ga,                 \* per client: the state of the Goal Allocation page
    bia,                \* per client: the state of the BudgetIncomeAllocation component
    dash,               \* per client: the lists and summaries of the Dashboard and Budget Planning pages
    lastOp,             \* the last handler that ran and its outcome
    household_invitations, \* set of invitation rows
    now,                \* the database clock NOW()
    acceptInvite,       \* per client: the state of the AcceptInvite page
    rpc,                \* per client: the accept_invitation call in flight, if any
    accepted,           \* the (token, user) pairs accept_invitation has accepted success for
    effects,            \* per client: the callbacks scheduled and not yet run
    localStorage,       \* per client: pendingInviteToken and activeHouseholdId
    hook                \* per client: the state of useHousehold()

store == <<transactions, monthly_budgets, budget_allocations, household_members, households>>
inviteVars == <<household_invitations, now, acceptInvite, rpc, accepted, effects>>
hookVars == <<localStorage, hook>>
vars == <<tz, transactions, monthly_budgets, budget_allocations, household_members, households,
          cf, session, route, ga, bia, dash, lastOp, inviteVars, hookVars>>

\* ---- dates ---------------------------------------------------------------
startOfMonth(m) == m * DaysPerMonth
endOfMonth(m) == m * DaysPerMonth + DaysPerMonth - 1
monthOf(d) == d \div DaysPerMonth

\* date.toISOString().split('T')[0] of a local midnight: the UTC calendar day,
\* which is the day before in a zone ahead of UTC.  A zone behind UTC and UTC itself
\* agree on it, so the pages that convert only local midnights take "west" for both.
toISOStringDate(d) == IF tz = "east" THEN d - 1 ELSE d

\* The UTC calendar day of date.toISOString() for the last millisecond of a local
\* day, which is the day after in a zone behind UTC; a DATE column compared with the
\* timestamp string is compared with that day.
toISOStringEndOfDay(d) == IF tz = "west" THEN d + 1 ELSE d

\* format(date, "yyyy-MM-dd") is the local calendar day.
format(d) == d

Max(a, b) == IF a > b THEN a ELSE b

\* ---- sums ----------------------------------------------------------------
RECURSIVE SumSet(_, _)
SumSet(f, S) ==
    IF S = {} THEN 0
    ELSE LET x == CHOOSE y \in S : TRUE IN f[x] + SumSet(f, S \ {x})

\* rows.reduce((sum, r) => sum + Number(r.amount), 0) over the rows of a bag that satisfy keep
SumAmount(bag, rows) == SumSet([r \in rows |-> bag[r] * r.amount], rows)
SumAllocated(bag, rows) == SumSet([r \in rows |-> bag[r] * r.allocated_amount], rows)

\* ---- row-level security --------------------------------------------------
get_user_household_ids(uid) == {m.household_id : m \in {x \in household_members : x.user_id = uid}}

\* "View transactions" / "View budgets": own rows or rows of a household of mine.
CanView(uid, row) == row.user_id = uid \/ row.household_id \in get_user_household_ids(uid)

\* "Users can view their own allocations"
CanViewAllocation(uid, row) == row.user_id = uid

\* ---- carry-forward calculator -------------------------------------------
QueryOutcomes == {"ok", "error", "throw"}

\* if (householdId) q.eq("household_id", householdId) else q.is("household_id", null)
HouseholdFilter(row, householdId) ==
    IF householdId # NULL THEN row.household_id = householdId ELSE row.household_id = NULL

\* const finalCarryForward = carryForward > 0 ? carryForward : 0
finalCarryForwardMut(carryForward) == carryForward
finalCarryForwardZeroMut(carryForward) == 0
finalCarryForward(carryForward) == IF carryForward > 0 THEN carryForward ELSE 0

\* supabase.from("transactions").select("amount").eq("user_id", userId)[.eq("category", category)]
\*   .eq("type", "income").lt("transaction_date", currentMonthStart) + household filter;
\* category = ALL leaves the category predicate out (the global calculator).
TransactionQuery(userId, category, currentMonthStart, householdId) ==
    {t \in BagToSet(transactions) :
        /\ CanView(userId, t)
        /\ t.user_id = userId
        /\ (category = ALL \/ t.category = category)
        /\ t.type = "income"
        /\ t.transaction_date < currentMonthStart
        /\ HouseholdFilter(t, householdId)}

\* supabase.from("monthly_budgets").select("id").eq("user_id", userId)[.eq("category", category)]
\*   .eq("type", "income").lt("month_year", currentMonthStart) + household filter
BudgetQuery(userId, category, currentMonthStart, householdId) ==
    {b \in monthly_budgets :
        /\ CanView(userId, b)
        /\ b.user_id = userId
        /\ (category = ALL \/ b.category = category)
        /\ b.type = "income"
        /\ b.month_year < currentMonthStart
        /\ HouseholdFilter(b, householdId)}

\* supabase.from("budget_allocations").select("allocated_amount").in("income_budget_id", budgetIds)
AllocationQuery(userId, budgetIds) ==
    {a \in BagToSet(budget_allocations) :
        CanViewAllocation(userId, a) /\ a.income_budget_id \in budgetIds}

\* startOfMonth(currentMonth).toISOString().split('T')[0]
currentMonthStartOf(currentMonth) == toISOStringDate(startOfMonth(currentMonth))

\* The body shared by both calculators.  q gives the outcome of each query: "error"
\* resolves to {data: null, error}, "throw" rejects and reaches the catch block.
CarryForwardBody(userId, category, currentMonth, householdId, q) ==
    LET currentMonthStart == currentMonthStartOf(currentMonth)
        txnRows == TransactionQuery(userId, category, currentMonthStart, householdId)
        totalActualIncome == IF q.txn = "ok" THEN SumAmount(transactions, txnRows) ELSE 0
        budgets == IF q.budget = "ok"
                   THEN BudgetQuery(userId, category, currentMonthStart, householdId)
                   ELSE {}
        budgetIds == {b.id : b \in budgets}
        totalAllocated == IF budgets # {} /\ q.alloc = "ok"
                          THEN SumAllocated(budget_allocations, AllocationQuery(userId, budgetIds))
                          ELSE 0
        thrown == \/ q.txn = "throw"
                  \/ q.budget = "throw"
                  \/ (budgets # {} /\ q.alloc = "throw")
    IN IF thrown THEN 0 ELSE finalCarryForward(totalActualIncome - totalAllocated)

calculateCarryForward(userId, category, currentMonth, householdId, q) ==
    CarryForwardBody(userId, category, currentMonth, householdId, q)

calculateTotalGlobalCarryForward(userId, currentMonth, householdId, q) ==
    CarryForwardBody(userId, ALL, currentMonth, householdId, q)

\* ---- Goal Allocation page -------------------------------------------------
Clients == {"c1", "c2"}

\* useHousehold(): the active household of the signed-in user, null without a membership
household(uid) ==
    IF get_user_household_ids(uid) = {} THEN NULL
    ELSE CHOOSE h \in get_user_household_ids(uid) : TRUE

\* `virtual-${category}` ids are the negative numbers, row ids the positive ones,
\* and 0 is the empty selection "".
CategoryNo(category) == IF category = "Salary" THEN 1 ELSE IF category = "Other" THEN 2 ELSE 3
VirtualId(category) == 0 - CategoryNo(category)
startsWithVirtualMut(id) == FALSE
startsWithVirtual(id) == id < 0
VirtualCategory(id) == CHOOSE c \in INCOME_CATEGORIES \cup EXPENSE_CATEGORIES : VirtualId(c) = id

\* applyScopeFilter
applyScopeFilter(uid, scope, row) ==
    IF scope = "family" /\ household(uid) # NULL
    THEN row.household_id = household(uid)
    ELSE row.household_id = NULL /\ row.user_id = uid

\* currentBudgets filtered to type "expense": goals whose start_date lies in the selected month
GAExpenseBudgets(uid, scope, selectedMonth) ==
    {b \in monthly_budgets :
        /\ CanView(uid, b)
        /\ b.start_date >= format(startOfMonth(selectedMonth))
        /\ b.start_date <= format(endOfMonth(selectedMonth))
        /\ applyScopeFilter(uid, scope, b)
        /\ b.type = "expense"}

\* allTransactions: income dated up to the end of the selected month
GAAllTransactions(uid, scope, selectedMonth) ==
    {t \in BagToSet(transactions) :
        /\ CanView(uid, t)
        /\ t.type = "income"
        /\ t.transaction_date <= format(endOfMonth(selectedMonth))
        /\ applyScopeFilter(uid, scope, t)}

\* allIncomeBudgets
GAAllIncomeBudgets(uid, scope) ==
    {b \in monthly_budgets : CanView(uid, b) /\ b.type = "income" /\ applyScopeFilter(uid, scope, b)}

\* income_budget:monthly_budgets!fk_income_budget(category, household_id): the joined
\* goal rows the reader may see (none: the embedded object is null)
IncomeBudgetOf(uid, alloc) ==
    {b \in monthly_budgets : b.id = alloc.income_budget_id /\ CanView(uid, b)}

\* allocatedMap[category]
GAAllocatedMut(uid, scope, selectedMonth, category) ==
    LET rows == {a \in BagToSet(budget_allocations) :
                    /\ CanViewAllocation(uid, a)
                    /\ \E b \in IncomeBudgetOf(uid, a) :
                          /\ IF scope = "family" /\ household(uid) # NULL
                             THEN b.household_id = household(uid)
                             ELSE b.household_id = NULL
                          /\ b.category = category}
    IN SumAllocated(budget_allocations, rows)
GAAllocated(uid, scope, selectedMonth, category) ==
    LET monthStr == startOfMonth(selectedMonth)
        rows == {a \in BagToSet(budget_allocations) :
                    /\ CanViewAllocation(uid, a)
                    /\ ~(a.month_year > monthStr)
                    /\ \E b \in IncomeBudgetOf(uid, a) :
                          /\ IF scope = "family" /\ household(uid) # NULL
                             THEN b.household_id = household(uid)
                             ELSE b.household_id = NULL
                          /\ b.category = category}
    IN SumAllocated(budget_allocations, rows)

\* incomeMap[category]
GAIncome(uid, scope, selectedMonth, category) ==
    LET rows == {t \in GAAllTransactions(uid, scope, selectedMonth) : t.category = category}
    IN SumAmount(transactions, rows)

\* categoryToBudgetId: the first goal of the category in month_year descending
\* order; goals with equal month_year come in a database order the code does not
\* fix, so each of them can be the first.
CategoryToBudgetIds(uid, scope) ==
    LET goals == GAAllIncomeBudgets(uid, scope)
        cats == {b.category : b \in goals}
        latest(c) == {b.id : b \in {x \in goals :
                         /\ x.category = c
                         /\ \A y \in goals : y.category = c => y.month_year <= x.month_year}}
    IN {f \in [cats -> {b.id : b \in goals}] : \A c \in cats : f[c] \in latest(c)}

\* The page state fetchData() leaves: one state per possible categoryToBudgetId
GAFetchData(uid, scope, selectedMonth) ==
    LET presentCategories == {t.category : t \in GAAllTransactions(uid, scope, selectedMonth)}
        view(categoryToBudgetId) ==
            LET budgetId(c) == IF c \in DOMAIN categoryToBudgetId
                               THEN categoryToBudgetId[c] ELSE VirtualId(c)
                categoryOf(id) == CHOOSE c \in presentCategories : budgetId(c) = id
                ids == {budgetId(c) : c \in presentCategories}
            IN [scope |-> scope,
                selectedMonth |-> selectedMonth,
                incomeBudgets |-> [id \in ids |-> categoryOf(id)],
                expenseBudgets |-> {b.id : b \in GAExpenseBudgets(uid, scope, selectedMonth)},
                availableAmounts |->
                    [id \in ids |-> GAIncome(uid, scope, selectedMonth, categoryOf(id))
                                    - GAAllocated(uid, scope, selectedMonth, categoryOf(id))]]
    IN {view(f) : f \in CategoryToBudgetIds(uid, scope)}

\* ---- store contents the dialogs can produce -------------------------------
Members == {[household_id |-> "h1", user_id |-> u, role |-> IF u = "u1" THEN "admin" ELSE "member"] : u \in Users}

\* households row; household h1 was created by u1
Household(id, created_by) == [id |-> id, created_by |-> created_by]
HouseholdRows == {Household("h1", "u1")}

Scopes == {[user_id |-> u, household_id |-> h] : u \in Users, h \in {NULL} \cup Households}

Txn(user, hh, type, category, amount, date) ==
    [user_id |-> user, household_id |-> hh, type |-> type, category |-> category,
     amount |-> amount, transaction_date |-> date]

Budget(id, user, hh, type, category, month_year, planned) ==
    [id |-> id, user_id |-> user, household_id |-> hh, type |-> type,
     category |-> category, month_year |-> month_year, start_date |-> month_year,
     end_date |-> {}, planned_amount |-> planned]

Allocation(user, income, expense, amount, month_year) ==
    [user_id |-> user, income_budget_id |-> income, expense_budget_id |-> expense,
     allocated_amount |-> amount, month_year |-> month_year]

\* One income transaction on the last day of month 0, and the rows that differ
\* from it in one respect: owner scope, kind, category or date.
BaseTxn == Txn("u1", NULL, "income", "Salary", 1, endOfMonth(0))
TxnVariants ==
    {Txn(s.user_id, s.household_id, "income", "Salary", 1, endOfMonth(0)) : s \in Scopes}
    \cup {Txn("u1", NULL, "expense", "Salary", 1, endOfMonth(0)),
          Txn("u1", NULL, "income", "Other", 1, endOfMonth(0)),
          Txn("u1", NULL, "income", "Salary", 1, startOfMonth(1))}
TxnStores == {SetToBag({BaseTxn})} \cup {SetToBag({BaseTxn}) (+) SetToBag({t}) : t \in TxnVariants}

\* One expense goal per scope and month, the income goal "Salary" of month 0, and
\* at most one more income goal that differs from it in one respect.
ExpenseGoals ==
    {Budget(10 + m, "u1", NULL, "expense", "Other", startOfMonth(m), MaxAmount) : m \in Months}
    \cup {Budget(20 + m, "u1", "h1", "expense", "Other", startOfMonth(m), MaxAmount) : m \in Months}
    \cup {Budget(30 + m, "u2", NULL, "expense", "Other", startOfMonth(m), MaxAmount) : m \in Months}
BaseGoal == Budget(1, "u1", NULL, "income", "Salary", startOfMonth(0), MaxAmount)
GoalVariants ==
    {Budget(2, s.user_id, s.household_id, "income", "Salary", startOfMonth(0), MaxAmount) : s \in Scopes}
    \cup {Budget(2, "u1", NULL, "income", "Other", startOfMonth(0), MaxAmount),
          Budget(2, "u1", NULL, "income", "Salary", endOfMonth(0), MaxAmount),
          Budget(2, "u1", NULL, "income", "Salary", startOfMonth(1), MaxAmount)}
GoalStores == {ExpenseGoals \cup {BaseGoal}} \cup {ExpenseGoals \cup {BaseGoal, g} : g \in GoalVariants}

\* The allocation rows the two allocation screens can write against the goals:
\* income and expense goal of one scope, written by a user who works in that scope.
ExpenseGoalOf(goals, g, m) ==
    CHOOSE e \in goals : /\ e.type = "expense"
                         /\ e.start_date = startOfMonth(m)
                         /\ e.household_id = g.household_id
                         /\ (g.household_id = NULL => e.user_id = g.user_id)
ActorsOf(g) == IF g.household_id = NULL THEN {g.user_id} ELSE Users
AllocationUniverse(goals) ==
    {Allocation(u, g.id, ExpenseGoalOf(goals, g, m).id, a, startOfMonth(m)) :
        u \in Users, g \in {x \in goals : x.type = "income"}, a \in Amounts, m \in Months}
AllocationRows(goals) ==
    {r \in AllocationUniverse(goals) :
        \E g \in goals : g.id = r.income_budget_id /\ r.user_id \in ActorsOf(g)}
BaseAllocation == Allocation("u1", 1, 10, 1, startOfMonth(0))
AllocationStores(goals) ==
    {EmptyBag} \cup {SetToBag({BaseAllocation}) (+) SetToBag({r}) : r \in AllocationRows(goals)}

IdleCall == [fn |-> "none", userId |-> "u1", category |-> ALL, currentMonth |-> 0,
             householdId |-> NULL, q |-> [txn |-> "ok", budget |-> "ok", alloc |-> "ok"],
             done |-> FALSE, result |-> 0]

IdleGA == [scope |-> "individual", selectedMonth |-> 0, incomeBudgets |-> << >>,
           expenseBudgets |-> {}, availableAmounts |-> << >>]

IdleBIA == [scope |-> "individual", selectedMonth |-> 0, incomeBudgets |-> {},
            expenseAllocations |-> << >>]

IdleDash == [scope |-> "individual", selectedMonth |-> 0, transactions |-> << >>,
             allocations |-> << >>, budgets |-> << >>, carryForwardAmount |-> 0]

\* a browser that has opened no invitation link and mounted no useHousehold()
IdleAcceptInvite == [token |-> NULL, status |-> "none"]
IdleRpc == [pc |-> "idle", lookup_token |-> NULL, invite_record |-> {}]
IdleStorage == [pendingInviteToken |-> NULL, activeHouseholdId |-> NULL]
IdleHook == [household |-> NULL, userRole |-> NULL, myHouseholds |-> {}]

\* no invitation has been created and no page of the invitation flow is open
NoInvitations ==
    /\ household_invitations = {}
    /\ now = 0
    /\ acceptInvite = [c \in Clients |-> IdleAcceptInvite]
    /\ rpc = [c \in Clients |-> IdleRpc]
    /\ accepted = {}
    /\ effects = [c \in Clients |-> {}]
NoHook ==
    /\ localStorage = [c \in Clients |-> IdleStorage]
    /\ hook = [c \in Clients |-> IdleHook]

Op(op, client, outcome, incomeId, amount, available, fresh, newBudgets, newAllocations) ==
    [op |-> op, client |-> client, outcome |-> outcome, incomeId |-> incomeId,
     amount |-> amount, available |-> available, fresh |-> fresh,
     newBudgets |-> newBudgets, newAllocations |-> newAllocations,
     deleteOutcome |-> "none", insertOutcome |-> "none", monthKey |-> 0,
     household |-> NULL, fetchOutcome |-> "none", switchOutcome |-> "none"]
NoOp == Op("none", "c1", "none", 0, 0, 0, 0, 0, 0)

InitStore ==
    /\ tz \in {"west", "east"}
    /\ household_members = Members
    /\ households = HouseholdRows
    /\ transactions \in TxnStores
    /\ monthly_budgets \in GoalStores
    /\ budget_allocations \in AllocationStores(monthly_budgets)

\* ---- the calculator applied to a store -----------------------------------
\* the outcomes of the three queries of one call: at most one of them fails
QueryResults ==
    {q \in [txn : QueryOutcomes, budget : QueryOutcomes, alloc : QueryOutcomes] :
        Cardinality({k \in {"txn", "budget", "alloc"} : q[k] # "ok"}) <= 1}
AllOk == [txn |-> "ok", budget |-> "ok", alloc |-> "ok"]

CalculatorCalls ==
    [fn : {"calculateCarryForward"}, userId : Users, category : INCOME_CATEGORIES,
     currentMonth : Months, householdId : {NULL} \cup Households, q : QueryResults,
     done : {FALSE}, result : {0}]
    \cup
    [fn : {"calculateTotalGlobalCarryForward"}, userId : Users, category : {ALL},
     currentMonth : Months, householdId : {NULL} \cup Households, q : QueryResults,
     done : {FALSE}, result : {0}]

InitCF ==
    /\ InitStore
    /\ cf \in CalculatorCalls
    /\ session = [c \in Clients |-> "u1"]
    /\ route = [c \in Clients |-> "/dashboard"]
    /\ ga = [c \in Clients |-> IdleGA]
    /\ bia = [c \in Clients |-> IdleBIA]
    /\ dash = [c \in Clients |-> IdleDash]
    /\ lastOp = NoOp
    /\ NoInvitations
    /\ NoHook

CalculateCarryForward ==
    /\ cf.fn = "calculateCarryForward"
    /\ ~cf.done
    /\ cf' = [cf EXCEPT !.done = TRUE,
                        !.result = calculateCarryForward(cf.userId, cf.category, cf.currentMonth,
                                                         cf.householdId, cf.q)]
    /\ UNCHANGED <<inviteVars, hookVars, tz, store, session, route, ga, bia, dash, lastOp>>

CalculateTotalGlobalCarryForward ==
    /\ cf.fn = "calculateTotalGlobalCarryForward"
    /\ ~cf.done
    /\ cf' = [cf EXCEPT !.done = TRUE,
                        !.result = calculateTotalGlobalCarryForward(cf.userId, cf.currentMonth,
                                                                    cf.householdId, cf.q)]
    /\ UNCHANGED <<inviteVars, hookVars, tz, store, session, route, ga, bia, dash, lastOp>>

NextCF == CalculateCarryForward \/ CalculateTotalGlobalCarryForward

SpecCF == InitCF /\ [][NextCF]_vars

\* derivedIncomeBudgets: the object behind an id of the income dropdown, the goal row
\* or, for `virtual-${category}`, an object made up for the UI
derivedIncomeBudget(uid, scope, id) ==
    IF id \in {VirtualId(c) : c \in INCOME_CATEGORIES \cup EXPENSE_CATEGORIES}
    THEN [id |-> id, category |-> VirtualCategory(id), planned_amount |-> 0, type |-> "income",
          household_id |-> IF scope = "family" /\ household(uid) # NULL
                           THEN household(uid) ELSE NULL]
    ELSE LET b == CHOOSE x \in monthly_budgets : x.id = id
         IN [id |-> id, category |-> b.category, planned_amount |-> b.planned_amount,
             type |-> b.type, household_id |-> b.household_id]

\* ---- Goal Allocation page: handlers ----------------------------------------
MaxAllocs == 2
MaxGoals == 3
AmountInputs == 0..(MaxAmount + 1)
\* which insert of a handler the database rejects, if any
WriteOutcomes == {"ok", "budgetError", "allocError"}

NewBudgetId == 1 + Max(0, CHOOSE n \in {b.id : b \in monthly_budgets} \cup {0} :
                             \A b \in monthly_budgets : b.id <= n)

\* the income goals in the table
GoalCount == Cardinality({b \in monthly_budgets : b.type = "income"})

\* the balance a fetchData() of this client would compute now for a category
GAFresh(c, category) ==
    GAIncome(session[c], ga[c].scope, ga[c].selectedMonth, category)
    - GAAllocated(session[c], ga[c].scope, ga[c].selectedMonth, category)

\* useEffect(..., [selectedMonth, scope, household]) -> fetchData(), in the next state
GARefetch(c, scope, selectedMonth) ==
    \E uid \in {session[c]}, sc \in {scope}, m \in {selectedMonth} :
        \E v \in GAFetchData(uid, sc, m)' : ga' = [ga EXCEPT ![c] = v]

\* BudgetMonthSelector: onMonthChange(addMonths / subMonths(selectedMonth, 1))
GASetMonth(c, d) ==
    /\ ga[c].selectedMonth + d \in Months
    /\ UNCHANGED <<inviteVars, hookVars, tz, store, cf, session, route, bia, dash>>
    /\ GARefetch(c, ga[c].scope, ga[c].selectedMonth + d)
    /\ lastOp' = Op("fetchData", c, "loaded", 0, 0, 0, 0, 0, 0)

\* handleScopeChange
GASetScope(c, scope) ==
    /\ scope # ga[c].scope
    /\ UNCHANGED <<inviteVars, hookVars, tz, store, cf, session, route, bia, dash>>
    /\ GARefetch(c, scope, ga[c].selectedMonth)
    /\ lastOp' = Op("fetchData", c, "loaded", 0, 0, 0, 0, 0, 0)

\* if (amountNum > available) -> "Amount exceeds available balance"
ExceedsAvailableMut(amount, available, fresh) == amount > fresh
ExceedsAvailableEqMut(amount, available, fresh) == amount >= available
ExceedsAvailable(amount, available, fresh) == amount > available

\* handleAllocate; amount 0 stands for the inputs parseFloat maps to 0 or NaN, and
\* w gives the outcome of the two inserts
handleAllocate(c, selectedIncomeId, selectedExpenseId, amount, w) ==
    LET uid == session[c]
        v == ga[c]
        available == IF selectedIncomeId \in DOMAIN v.availableAmounts
                     THEN v.availableAmounts[selectedIncomeId] ELSE 0
        fresh == IF selectedIncomeId \in DOMAIN v.incomeBudgets
                 THEN GAFresh(c, v.incomeBudgets[selectedIncomeId]) ELSE 0
        monthStr == format(startOfMonth(v.selectedMonth))
        virtual == startsWithVirtual(selectedIncomeId)
        newBudget == [id |-> NewBudgetId, user_id |-> uid,
                      household_id |-> IF v.scope = "family" /\ household(uid) # NULL
                                       THEN household(uid) ELSE NULL,
                      type |-> "income", category |-> VirtualCategory(selectedIncomeId),
                      month_year |-> monthStr, start_date |-> monthStr, end_date |-> {},
                      planned_amount |-> 0]
        finalIncomeId == IF virtual THEN NewBudgetId ELSE selectedIncomeId
        row == Allocation(uid, finalIncomeId, selectedExpenseId, amount, monthStr)
        done(outcome, nb, na) ==
            lastOp' = Op("handleAllocate", c, outcome, selectedIncomeId, amount, available, fresh, nb, na)
    IN /\ UNCHANGED <<inviteVars, hookVars, tz, transactions, household_members, households, cf, session, route, bia, dash>>
       /\ IF selectedIncomeId = 0 \/ selectedExpenseId = 0
          THEN /\ lastOp' = Op("handleAllocate", c, "missing", 0, 0, 0, 0, 0, 0)
               /\ UNCHANGED <<monthly_budgets, budget_allocations, ga>>
          ELSE IF amount <= 0
          THEN /\ lastOp' = Op("handleAllocate", c, "invalid", 0, 0, 0, 0, 0, 0)
               /\ UNCHANGED <<monthly_budgets, budget_allocations, ga>>
          ELSE IF ExceedsAvailable(amount, available, fresh)
          THEN /\ done("exceeds", 0, 0)
               /\ UNCHANGED <<monthly_budgets, budget_allocations, ga>>
          ELSE IF virtual /\ w = "budgetError"
          THEN /\ done("failed", 0, 0)
               /\ UNCHANGED <<monthly_budgets, budget_allocations, ga>>
          ELSE IF w = "allocError"
          THEN /\ virtual => GoalCount < MaxGoals
               /\ monthly_budgets' = IF virtual THEN monthly_budgets \cup {newBudget}
                                     ELSE monthly_budgets
               /\ done("failed", IF virtual THEN 1 ELSE 0, 0)
               /\ UNCHANGED <<budget_allocations, ga>>
          ELSE /\ BagCardinality(budget_allocations) < MaxAllocs
               /\ virtual => GoalCount < MaxGoals
               /\ monthly_budgets' = IF virtual THEN monthly_budgets \cup {newBudget}
                                     ELSE monthly_budgets
               /\ budget_allocations' = budget_allocations (+) SetToBag({row})
               /\ GARefetch(c, v.scope, v.selectedMonth)
               /\ done("created", IF virtual THEN 1 ELSE 0, 1)

\* the clients with a signed-in user (fetchData: if (!user) return)
SignedIn == {c \in Clients : session[c] # NULL}
\* the clients that show the page of a route
OnPage(path) == {c \in SignedIn : route[c] = path}

\* The form inputs of one request. Inputs that differ only in a field the handler
\* does not read before it returns are drawn once: with a field missing the amount
\* is not read, and an insert that is not issued has no outcome.
GAInputs(c) ==
    {i \in [incomeId : DOMAIN ga[c].incomeBudgets \cup {0},
            expenseId : ga[c].expenseBudgets \cup {0},
            amount : AmountInputs, w : WriteOutcomes] :
        /\ (i.incomeId = 0 \/ i.expenseId = 0) => i.amount = 0
        /\ i.amount = 0 => i.w = "ok"
        /\ i.w = "budgetError" => startsWithVirtual(i.incomeId)}

HandleAllocate ==
    \E c \in OnPage("/goal-allocation") : \E i \in GAInputs(c) :
        handleAllocate(c, i.incomeId, i.expenseId, i.amount, i.w)

SetMonth == \E c \in OnPage("/goal-allocation"), d \in {-1, 1} : GASetMonth(c, d)
SetScope == \E c \in OnPage("/goal-allocation"), scope \in {"individual", "family"} : GASetScope(c, scope)

\* The Goal Allocation page of every signed-in client is mounted in the latest month
\* in individual scope and has loaded its data.
GAMounted ==
    ga \in {g \in [Clients -> {IdleGA} \cup UNION {GAFetchData(u, "individual", MaxMonth) : u \in Users}] :
               \A c \in Clients :
                   IF session[c] = NULL THEN g[c] = IdleGA
                   ELSE g[c] \in GAFetchData(session[c], "individual", MaxMonth)}

\* Two setups: one client over every store of the universe, or two clients (of one
\* user, or of two members of the household) over a store with two income
\* transactions of category "Salary" in month 0, both individual or one of them
\* of the household, and an income goal for each scope that has income.
InitGA ==
    /\ household_members = Members
    /\ households = HouseholdRows
    /\ budget_allocations = EmptyBag
    /\ \/ /\ tz = "west"
          /\ session = [c \in Clients |-> IF c = "c1" THEN "u1" ELSE NULL]
          /\ transactions \in TxnStores
          /\ monthly_budgets \in GoalStores
       \/ /\ tz \in {"west", "east"}
          /\ session \in {s \in [Clients -> Users] : s["c1"] = "u1"}
          /\ \/ /\ transactions = SetToBag({BaseTxn}) (+) SetToBag({BaseTxn})
                /\ monthly_budgets = ExpenseGoals \cup {BaseGoal}
             \/ /\ transactions = SetToBag({BaseTxn, Txn("u1", "h1", "income", "Salary", 1, endOfMonth(0))})
                /\ monthly_budgets = ExpenseGoals \cup {BaseGoal, Budget(2, "u1", "h1", "income", "Salary",
                                                                    startOfMonth(0), MaxAmount)}
    /\ cf = IdleCall
    /\ route = [c \in Clients |-> IF session[c] = NULL THEN "/auth" ELSE "/goal-allocation"]
    /\ GAMounted
    /\ bia = [c \in Clients |-> IdleBIA]
    /\ dash = [c \in Clients |-> IdleDash]
    /\ lastOp = NoOp
    /\ NoInvitations
    /\ NoHook

NextGA == HandleAllocate \/ SetMonth \/ SetScope

SpecGA == InitGA /\ [][NextGA]_vars

\* ---- BudgetIncomeAllocation component of the Budget Planning page ----------
MaxEntries == 1

\* useState(new Date()): the month a page shows when it is mounted
Today == MaxMonth

\* monthKey = startOfMonth(selectedMonth).toISOString().split('T')[0]
monthKeyOf(selectedMonth) == toISOStringDate(startOfMonth(selectedMonth))

\* the scope filter of the income and expense queries
BIAScopeFilter(uid, scope, row) ==
    IF scope = "individual"
    THEN row.user_id = uid /\ row.household_id = NULL
    ELSE household(uid) # NULL /\ row.household_id = household(uid)

BIABudgets(uid, scope, selectedMonth, type) ==
    {b \in monthly_budgets :
        /\ CanView(uid, b)
        /\ b.type = type
        /\ b.month_year = monthKeyOf(selectedMonth)
        /\ BIAScopeFilter(uid, scope, b)}

\* allocationsData: the user's rows tagged with the month key
BIAAllocationsData(uid, selectedMonth) ==
    {a \in BagToSet(budget_allocations) :
        /\ CanViewAllocation(uid, a)
        /\ a.user_id = uid
        /\ a.month_year = monthKeyOf(selectedMonth)}

Entry(incomeId, amount) == [incomeId |-> incomeId, amount |-> amount]

\* the orders in which the rows of a bag can come back from a query
RECURSIVE SeqsOfBag(_)
SeqsOfBag(B) ==
    IF B = EmptyBag THEN {<< >>}
    ELSE UNION {{<<x>> \o sq : sq \in SeqsOfBag(B (-) SetToBag({x}))} : x \in BagToSet(B)}

\* the on-screen entries of one expense goal: its rows in query order
BIAEntries(uid, selectedMonth, expenseId) ==
    LET rows == {a \in BIAAllocationsData(uid, selectedMonth) : a.expense_budget_id = expenseId}
        asBag == [a \in rows |-> CopiesIn(a, budget_allocations)]
    IN {[i \in DOMAIN sq |-> Entry(sq[i].income_budget_id, sq[i].allocated_amount)] :
           sq \in SeqsOfBag(asBag)}

\* the component state fetchData() leaves
BIAFetchData(uid, scope, selectedMonth) ==
    LET incomes == {b.id : b \in BIABudgets(uid, scope, selectedMonth, "income")}
        expenses == {b.id : b \in BIABudgets(uid, scope, selectedMonth, "expense")}
        lists == UNION {BIAEntries(uid, selectedMonth, e) : e \in expenses}
    IN {[scope |-> scope, selectedMonth |-> selectedMonth, incomeBudgets |-> incomes,
         expenseAllocations |-> f] :
           f \in {g \in [expenses -> lists] :
                     \A e \in expenses : g[e] \in BIAEntries(uid, selectedMonth, e)}}

\* useEffect(..., [selectedMonth, scope]) -> fetchData(), in the next state
BIARefetch(c, scope, selectedMonth) ==
    \E uid \in {session[c]}, sc \in {scope}, m \in {selectedMonth} :
        \E v \in BIAFetchData(uid, sc, m)' : bia' = [bia EXCEPT ![c] = v]

\* the allocation editor is rendered only when both lists are non-empty
BIARendered(c) == bia[c].incomeBudgets # {} /\ DOMAIN bia[c].expenseAllocations # {}

BIAEdit(c, expenseId, entries) ==
    /\ bia' = [bia EXCEPT ![c].expenseAllocations[expenseId] = entries]
    /\ lastOp' = Op("edit", c, "edited", 0, 0, 0, 0, 0, 0)
    /\ UNCHANGED <<inviteVars, hookVars, tz, store, cf, session, route, ga, dash>>

addAllocation(c, expenseId) ==
    LET entries == bia[c].expenseAllocations[expenseId]
    IN /\ Len(entries) < MaxEntries
       /\ BIAEdit(c, expenseId, Append(entries, Entry(0, 0)))

updateAllocation(c, expenseId, index, field, value) ==
    LET entries == bia[c].expenseAllocations[expenseId]
    IN /\ index \in DOMAIN entries
       /\ IF field = "incomeId"
          THEN /\ value \in bia[c].incomeBudgets
               /\ BIAEdit(c, expenseId, [entries EXCEPT ![index].incomeId = value])
          ELSE /\ value \in AmountInputs
               /\ BIAEdit(c, expenseId, [entries EXCEPT ![index].amount = value])

removeAllocation(c, expenseId, index) ==
    LET entries == bia[c].expenseAllocations[expenseId]
    IN /\ index \in DOMAIN entries
       /\ BIAEdit(c, expenseId, [i \in 1..(Len(entries) - 1) |->
                                    IF i < index THEN entries[i] ELSE entries[i + 1]])

DeleteOutcomes == {"ok", "error"}

\* saveAllocations; d is the outcome of the delete request, whose result the code
\* does not inspect, and w the outcome of the insert request
saveAllocations(c, d, w) ==
    LET uid == session[c]
        v == bia[c]
        monthKey == monthKeyOf(v.selectedMonth)
        deleted == {a \in BagToSet(budget_allocations) :
                       a.user_id = uid /\ a.month_year = monthKey}
        afterDelete == IF d = "ok"
                       THEN [a \in BagToSet(budget_allocations) \ deleted |->
                                CopiesIn(a, budget_allocations)]
                       ELSE budget_allocations
        entries == UNION {{<<e, i>> : i \in DOMAIN v.expenseAllocations[e]} :
                             e \in DOMAIN v.expenseAllocations}
        kept == {p \in entries :
                    /\ v.expenseAllocations[p[1]][p[2]].incomeId # 0
                    /\ v.expenseAllocations[p[1]][p[2]].amount > 0}
        rowOf(p) == Allocation(uid, v.expenseAllocations[p[1]][p[2]].incomeId, p[1],
                               v.expenseAllocations[p[1]][p[2]].amount, monthKey)
        allocationsToInsert == [r \in {rowOf(p) : p \in kept} |->
                                   Cardinality({p \in kept : rowOf(p) = r})]
        done(outcome, insertOutcome, n) ==
            lastOp' = [Op("saveAllocations", c, outcome, 0, 0, 0, 0, 0, n) EXCEPT
                          !.deleteOutcome = d, !.insertOutcome = insertOutcome,
                          !.monthKey = monthKey]
    IN /\ BIARendered(c)
       /\ UNCHANGED <<inviteVars, hookVars, tz, transactions, monthly_budgets, household_members, households, cf, session, route, ga, dash>>
       /\ IF kept = {}
          THEN /\ w = "ok"
               /\ budget_allocations' = afterDelete
               /\ BIARefetch(c, v.scope, v.selectedMonth)
               /\ done("saved", "none", 0)
          ELSE IF w = "allocError"
          THEN /\ budget_allocations' = afterDelete
               /\ UNCHANGED bia
               /\ done("failed", "error", 0)
          ELSE /\ BagCardinality(afterDelete (+) allocationsToInsert) <= MaxAllocs
               /\ budget_allocations' = afterDelete (+) allocationsToInsert
               /\ BIARefetch(c, v.scope, v.selectedMonth)
               /\ done("saved", "ok", BagCardinality(allocationsToInsert))

\* BudgetMonthSelector on the Budget Planning page
BIASetMonth(c, d) ==
    /\ bia[c].selectedMonth + d \in Months
    /\ UNCHANGED <<inviteVars, hookVars, tz, store, cf, session, route, ga, dash>>
    /\ BIARefetch(c, bia[c].scope, bia[c].selectedMonth + d)
    /\ lastOp' = Op("fetchData", c, "loaded", 0, 0, 0, 0, 0, 0)

\* handleScopeChange of the Budget Planning page (the user has a household)
BIASetScope(c, scope) ==
    /\ scope # bia[c].scope
    /\ scope = "family" => household(session[c]) # NULL
    /\ UNCHANGED <<inviteVars, hookVars, tz, store, cf, session, route, ga, dash>>
    /\ BIARefetch(c, scope, bia[c].selectedMonth)
    /\ lastOp' = Op("fetchData", c, "loaded", 0, 0, 0, 0, 0, 0)

\* <Route path=...>: the page of the new route is mounted in individual scope and the
\* current month and loads its data; the page left is unmounted
navigate(c, path) ==
    /\ path # route[c]
    /\ route' = [route EXCEPT ![c] = path]
    /\ UNCHANGED <<inviteVars, hookVars, tz, store, cf, session, dash>>
    /\ lastOp' = Op("navigate", c, "loaded", 0, 0, 0, 0, 0, 0)
    /\ IF path = "/goal-allocation"
       THEN /\ \E view \in GAFetchData(session[c], "individual", Today) :
                   ga' = [ga EXCEPT ![c] = view]
            /\ bia' = [bia EXCEPT ![c] = IdleBIA]
       ELSE /\ \E view \in BIAFetchData(session[c], "individual", Today) :
                   bia' = [bia EXCEPT ![c] = view]
            /\ ga' = [ga EXCEPT ![c] = IdleGA]

AddAllocation ==
    \E c \in OnPage("/budget-planning") : \E expenseId \in DOMAIN bia[c].expenseAllocations :
        BIARendered(c) /\ addAllocation(c, expenseId)
UpdateAllocation ==
    \E c \in OnPage("/budget-planning") : \E expenseId \in DOMAIN bia[c].expenseAllocations :
        \E index \in DOMAIN bia[c].expenseAllocations[expenseId], field \in {"incomeId", "amount"},
           value \in AmountInputs \cup bia[c].incomeBudgets :
            BIARendered(c) /\ updateAllocation(c, expenseId, index, field, value)
RemoveAllocation ==
    \E c \in OnPage("/budget-planning") : \E expenseId \in DOMAIN bia[c].expenseAllocations :
        \E index \in DOMAIN bia[c].expenseAllocations[expenseId] :
            BIARendered(c) /\ removeAllocation(c, expenseId, index)
SaveAllocations ==
    \E c \in OnPage("/budget-planning"), d \in DeleteOutcomes, w \in {"ok", "allocError"} :
        saveAllocations(c, d, w)
SetPlanningMonth == \E c \in OnPage("/budget-planning"), d \in {-1, 1} : BIASetMonth(c, d)
SetPlanningScope ==
    \E c \in OnPage("/budget-planning"), scope \in {"individual", "family"} : BIASetScope(c, scope)
Navigate == \E c \in SignedIn, path \in {"/goal-allocation", "/budget-planning"} : navigate(c, path)

\* The goals one user added with the add-budget dialog for every month, in both
\* scopes: an income goal "Salary" and an expense goal, tagged with the month key.
DialogGoals ==
    UNION {{Budget(1 + m, "u1", NULL, "income", "Salary", monthKeyOf(m), MaxAmount),
            Budget(5 + m, "u1", "h1", "income", "Salary", monthKeyOf(m), MaxAmount),
            Budget(10 + m, "u1", NULL, "expense", "Other", monthKeyOf(m), MaxAmount),
            Budget(20 + m, "u1", "h1", "expense", "Other", monthKeyOf(m), MaxAmount)} :
           m \in Months}

\* One client on the Budget Planning page; one income transaction in each scope.
InitBIA ==
    /\ tz \in {"west", "east"}
    /\ household_members = Members
    /\ households = HouseholdRows
    /\ transactions = SetToBag({BaseTxn, Txn("u1", "h1", "income", "Salary", 1, endOfMonth(0))})
    /\ monthly_budgets = DialogGoals
    /\ budget_allocations = EmptyBag
    /\ cf = IdleCall
    /\ session = [c \in Clients |-> IF c = "c1" THEN "u1" ELSE NULL]
    /\ route = [c \in Clients |-> IF c = "c1" THEN "/budget-planning" ELSE "/auth"]
    /\ ga = [c \in Clients |-> IdleGA]
    /\ bia \in {b \in [Clients -> {IdleBIA} \cup BIAFetchData("u1", "individual", Today)] :
                   b["c1"] # IdleBIA /\ b["c2"] = IdleBIA}
    /\ dash = [c \in Clients |-> IdleDash]
    /\ lastOp = NoOp
    /\ NoInvitations
    /\ NoHook

NextBIA ==
    \/ AddAllocation
    \/ UpdateAllocation
    \/ RemoveAllocation
    \/ SaveAllocations
    \/ SetPlanningMonth
    \/ SetPlanningScope
    \/ Navigate
    \/ HandleAllocate
    \/ SetMonth
    \/ SetScope

SpecBIA == InitBIA /\ [][NextBIA]_vars

\* ---- Dashboard and Budget Planning pages: lists, summaries and dialogs ------
\* The allocation editor mounted on the Budget Planning page is kept in bia and
\* driven by SpecBIA; dash holds the other components of the two pages.
MaxTxns == 2
MaxBudgetRows == 4

\* .from("household_members").select("household_id").eq("user_id", user.id).single():
\* the membership when the user has exactly one, otherwise an error and data null
singleMembership(uid) ==
    IF Cardinality(get_user_household_ids(uid)) = 1
    THEN CHOOSE h \in get_user_household_ids(uid) : TRUE
    ELSE NULL

\* let householdId = null; if (scope === "family") householdId = membership?.household_id || null
householdIdOf(uid, scope) == IF scope = "family" THEN singleMembership(uid) ELSE NULL

\* scope === "individual" ? query.eq("user_id", user.id).is("household_id", null)
\*                        : query.eq("household_id", householdId)
\* (household_id = null is true of no row)
scopeQuery(uid, scope, row) ==
    IF scope = "individual"
    THEN row.user_id = uid /\ row.household_id = NULL
    ELSE householdIdOf(uid, scope) # NULL /\ row.household_id = householdIdOf(uid, scope)

\* TransactionList.fetchTransactions: the rows the list shows
fetchTransactions(uid, scope) ==
    LET rows == {t \in BagToSet(transactions) : CanView(uid, t) /\ scopeQuery(uid, scope, t)}
    IN [t \in rows |-> CopiesIn(t, transactions)]

\* BudgetAllocationBreakdown.fetchAllocations: category -> (planned, actual).
\* allocationMap.set(budget.category, ...) runs once per goal, so of several goals
\* of one category the last one in query order stays; the query has no order.
fetchAllocations(uid, scope, selectedMonth, type) ==
    LET monthStartStr == format(startOfMonth(selectedMonth))
        monthEndStr == format(endOfMonth(selectedMonth))
        rawBudgets == {b \in monthly_budgets :
                          /\ CanView(uid, b)
                          /\ b.type = type
                          /\ b.start_date <= monthEndStr
                          /\ scopeQuery(uid, scope, b)}
        budgets == {b \in rawBudgets : b.end_date = {} \/ \E e \in b.end_date : e >= monthStartStr}
        rows == {t \in BagToSet(transactions) :
                    /\ CanView(uid, t)
                    /\ t.type = type
                    /\ t.transaction_date >= toISOStringDate(startOfMonth(selectedMonth))
                    /\ t.transaction_date <= toISOStringEndOfDay(endOfMonth(selectedMonth))
                    /\ scopeQuery(uid, scope, t)}
        categories == {b.category : b \in budgets} \cup {t.category : t \in rows}
        plannedOf(c) == IF \E b \in budgets : b.category = c
                        THEN {b.planned_amount : b \in {x \in budgets : x.category = c}}
                        ELSE {0}
        actualOf(c) == SumAmount(transactions, {t \in rows : t.category = c})
    IN {[c \in categories |-> [planned |-> p[c], actual |-> actualOf(c)]] :
           p \in {q \in [categories -> 0..MaxAmount] : \A c \in categories : q[c] \in plannedOf(c)}}

\* BudgetAllocationBreakdown, one row of allocations.map(...)
\* const isOverBudget = allocation.actual > allocation.planned && allocation.planned > 0
isOverBudget(allocation) == allocation.actual > allocation.planned /\ allocation.planned > 0
\* const remaining = allocation.planned - allocation.actual
remaining(allocation) == allocation.planned - allocation.actual
\* Math.abs
Abs(x) == IF x < 0 THEN 0 - x ELSE x
\* what the row shows: the label (a percentage or 'No budget'), under it "Over by
\* <amount>" or "<amount> left" when planned > 0, the red colour, and the progress bar
renderAllocation(allocation) ==
    [label |-> IF allocation.planned > 0 THEN "percentage" ELSE "No budget",
     detail |-> IF allocation.planned > 0
                THEN (IF isOverBudget(allocation) THEN "Over by" ELSE "left")
                ELSE "none",
     amount |-> IF allocation.planned > 0
                THEN (IF isOverBudget(allocation) THEN Abs(remaining(allocation))
                      ELSE remaining(allocation))
                ELSE 0,
     red |-> isOverBudget(allocation),
     progress |-> allocation.planned > 0]

\* BudgetCategoryList.fetchBudgets for type "income" in the monthly view: the goals
\* listed and the carry_forward shown next to each,
\* calculateCarryForward(user.id, budget.category, selectedMonth)
fetchBudgets(uid, scope, selectedMonth) ==
    LET monthStartStr == format(startOfMonth(selectedMonth))
        monthEndStr == format(endOfMonth(selectedMonth))
        data == {b \in monthly_budgets :
                    /\ CanView(uid, b)
                    /\ b.type = "income"
                    /\ b.start_date <= monthEndStr
                    /\ scopeQuery(uid, scope, b)}
        processedData == {b \in data : b.end_date = {} \/ \E e \in b.end_date : e >= monthStartStr}
    IN [id \in {b.id : b \in processedData} |->
           LET budget == CHOOSE b \in processedData : b.id = id
           IN calculateCarryForward(uid, budget.category, selectedMonth, NULL, AllOk)]

\* BudgetSummary.fetchSummary: the carry-forward card,
\* calculateTotalGlobalCarryForward(user.id, selectedMonth, householdId)
fetchSummary(uid, scope, selectedMonth) ==
    calculateTotalGlobalCarryForward(uid, selectedMonth, householdIdOf(uid, scope), AllOk)

\* the breakdowns a page mounts: type="expense" on the Dashboard, both on Budget Planning
BreakdownTypes(path) == IF path = "/dashboard" THEN {"expense"} ELSE {"income", "expense"}

\* the state the components of a page have after they loaded their data
DashFetch(uid, path, scope, selectedMonth) ==
    LET types == BreakdownTypes(path)
        maps == UNION {fetchAllocations(uid, scope, selectedMonth, t) : t \in types}
    IN {[scope |-> scope,
         selectedMonth |-> selectedMonth,
         transactions |-> IF path = "/dashboard" THEN fetchTransactions(uid, scope) ELSE << >>,
         allocations |-> f,
         budgets |-> IF path = "/budget-planning"
                     THEN fetchBudgets(uid, scope, selectedMonth) ELSE << >>,
         carryForwardAmount |-> IF path = "/budget-planning"
                                THEN fetchSummary(uid, scope, selectedMonth) ELSE 0] :
           f \in {g \in [types -> maps] :
                     \A t \in types : g[t] \in fetchAllocations(uid, scope, selectedMonth, t)}}

\* key={`...${refreshKey}-${scope}`}: the components are mounted anew and load, in the next state
DashRefetch(c, path, scope, selectedMonth) ==
    \E uid \in {session[c]}, pa \in {path}, sc \in {scope}, m \in {selectedMonth} :
        \E v \in DashFetch(uid, pa, sc, m)' : dash' = [dash EXCEPT ![c] = v]

\* AddTransactionDialog.handleSubmit in add mode; w is the outcome of the insert.  A
\* missing category, an amount that is not positive and a rejected insert end in a
\* toast and change nothing.
AddTransactionDialog_handleSubmit(c, type, category, amount, date, w) ==
    LET uid == session[c]
        scope == dash[c].scope
        row == Txn(uid, householdIdOf(uid, scope), type, category, amount, date)
    IN /\ UNCHANGED <<inviteVars, hookVars, tz, monthly_budgets, budget_allocations, household_members, households,
                      cf, session, route, ga, bia>>
       /\ IF category = "" \/ amount <= 0 \/ w # "ok"
          THEN UNCHANGED <<transactions, dash, lastOp>>
          ELSE /\ BagCardinality(transactions) < MaxTxns
               /\ transactions' = transactions (+) SetToBag({row})
               /\ DashRefetch(c, "/dashboard", scope, dash[c].selectedMonth)
               /\ lastOp' = Op("addTransaction", c, "created", 0, 0, 0, 0, 0, 0)

\* TransactionList.handleDeleteConfirm for a row of the list; w is the outcome of the
\* delete request.  Only the list loads again (fetchTransactions).
handleDeleteConfirm(c, transactionToDelete, w) ==
    /\ UNCHANGED <<inviteVars, hookVars, tz, monthly_budgets, budget_allocations, household_members, households,
                   cf, session, route, ga, bia>>
    /\ IF w # "ok"
       THEN UNCHANGED <<transactions, dash, lastOp>>
       ELSE /\ transactions' = transactions (-) SetToBag({transactionToDelete})
            /\ \E uid \in {session[c]}, sc \in {dash[c].scope} :
                   dash' = [dash EXCEPT ![c].transactions = fetchTransactions(uid, sc)']
            /\ lastOp' = Op("deleteTransaction", c, "deleted", 0, 0, 0, 0, 0, 0)

\* AddBudgetDialog.handleSubmit; endDate is {} when no end date was picked
AddBudgetDialog_handleSubmit(c, type, category, amount, startDate, endDate, w) ==
    LET uid == session[c]
        scope == dash[c].scope
        entry == [id |-> NewBudgetId, user_id |-> uid, household_id |-> householdIdOf(uid, scope),
                  type |-> type, category |-> category, month_year |-> format(startDate),
                  start_date |-> format(startDate), end_date |-> {format(e) : e \in endDate},
                  planned_amount |-> amount]
    IN /\ UNCHANGED <<inviteVars, hookVars, tz, transactions, budget_allocations, household_members, households,
                      cf, session, route, ga, bia>>
       /\ IF w # "ok"
          THEN UNCHANGED <<monthly_budgets, dash, lastOp>>
          ELSE /\ Cardinality(monthly_budgets) < MaxBudgetRows
               /\ monthly_budgets' = monthly_budgets \cup {entry}
               /\ DashRefetch(c, "/budget-planning", scope, dash[c].selectedMonth)
               /\ lastOp' = Op("addBudget", c, "created", 0, 0, 0, 0, 0, 0)

\* handleScopeChange of the Dashboard and of Budget Planning: family scope needs a household
DashSetScope(c, scope) ==
    /\ scope # dash[c].scope
    /\ scope = "family" => household(session[c]) # NULL
    /\ UNCHANGED <<inviteVars, hookVars, tz, store, cf, session, route, ga, bia>>
    /\ DashRefetch(c, route[c], scope, dash[c].selectedMonth)
    /\ lastOp' = Op("fetch", c, "loaded", 0, 0, 0, 0, 0, 0)

\* BudgetMonthSelector of the two pages.  The key and the effect of TransactionList
\* do not contain the month: the list keeps its rows.
DashSetMonth(c, d) ==
    /\ dash[c].selectedMonth + d \in Months
    /\ UNCHANGED <<inviteVars, hookVars, tz, store, cf, session, route, ga, bia>>
    /\ \E uid \in {session[c]} :
          \E v \in DashFetch(uid, route[c], dash[c].scope, dash[c].selectedMonth + d) :
              dash' = [dash EXCEPT ![c] = [v EXCEPT !.transactions = dash[c].transactions]]
    /\ lastOp' = Op("fetch", c, "loaded", 0, 0, 0, 0, 0, 0)

\* navigate("/budget-planning") / navigate("/dashboard"): the page is mounted in
\* individual scope and the current month
DashNavigate(c, path) ==
    /\ path # route[c]
    /\ route' = [route EXCEPT ![c] = path]
    /\ UNCHANGED <<inviteVars, hookVars, tz, store, cf, session, ga, bia>>
    /\ \E v \in DashFetch(session[c], path, "individual", Today) : dash' = [dash EXCEPT ![c] = v]
    /\ lastOp' = Op("fetch", c, "loaded", 0, 0, 0, 0, 0, 0)

\* The form inputs of the two dialogs.  A field the handler does not read before it
\* returns is drawn once.
TransactionInputs ==
    {i \in [type : {"income", "expense"}, category : {"", "Salary", "Groceries"},
            amount : 0..1, date : {endOfMonth(0), startOfMonth(MaxMonth)}, w : {"ok", "error"}] :
        /\ i.category # "" => i.category \in (IF i.type = "income" THEN INCOME_CATEGORIES
                                                ELSE EXPENSE_CATEGORIES)
        /\ i.category = "" => (i.type = "income" /\ i.amount = 0)
        /\ i.amount = 0 => (i.date = endOfMonth(0) /\ i.w = "ok")
        /\ i.w = "error" => (i.type = "income" /\ i.date = endOfMonth(0))}

\* The start date is a day of the month the page shows; the end date is left empty,
\* or set to the start date when that is the first day of the month.
BudgetInputs(c) ==
    {i \in [type : {"income", "expense"}, category : {"Salary", "Groceries"}, amount : {1},
            startDate : {startOfMonth(dash[c].selectedMonth), endOfMonth(dash[c].selectedMonth)},
            endDate : {{}} \cup {{d} : d \in Dates}, w : {"ok", "error"}] :
        /\ i.category \in (IF i.type = "income" THEN INCOME_CATEGORIES ELSE EXPENSE_CATEGORIES)
        /\ i.endDate \in {{}, {i.startDate}}
        /\ i.endDate # {} => i.startDate = startOfMonth(dash[c].selectedMonth)
        /\ i.w = "error" => (i.type = "income" /\ i.endDate = {}
                             /\ i.startDate = startOfMonth(dash[c].selectedMonth))}

AddTransaction ==
    \E c \in OnPage("/dashboard") : \E i \in TransactionInputs :
        AddTransactionDialog_handleSubmit(c, i.type, i.category, i.amount, i.date, i.w)
DeleteTransaction ==
    \E c \in OnPage("/dashboard") : \E t \in DOMAIN dash[c].transactions, w \in {"ok", "error"} :
        handleDeleteConfirm(c, t, w)
AddBudget ==
    \E c \in OnPage("/budget-planning") : \E i \in BudgetInputs(c) :
        AddBudgetDialog_handleSubmit(c, i.type, i.category, i.amount, i.startDate, i.endDate, i.w)
SetDashScope ==
    \E c \in OnPage("/dashboard") \cup OnPage("/budget-planning"),
       scope \in {"individual", "family"} : DashSetScope(c, scope)
SetDashMonth ==
    \E c \in OnPage("/dashboard") \cup OnPage("/budget-planning"), d \in {-1, 1} : DashSetMonth(c, d)
NavigateDash ==
    \E c \in SignedIn, path \in {"/dashboard", "/budget-planning"} : DashNavigate(c, path)

\* The memberships of u1: none, one household, or two households (u2 is a member of h1)
MembershipStores ==
    {Members,
     {m \in Members : m.user_id # "u1"},
     Members \cup {[household_id |-> "h2", user_id |-> "u1", role |-> "admin"]}}
HouseholdsOf(members) ==
    HouseholdRows \cup {Household(m.household_id, m.user_id) : m \in {x \in members : x.household_id = "h2"}}

\* an expense goal "Groceries" without a planned amount, and the household's income goal
GroceriesGoal == Budget(10, "u1", NULL, "expense", "Groceries", startOfMonth(0), 0)
HouseholdGoal == Budget(2, "u1", "h1", "income", "Salary", startOfMonth(0), MaxAmount)
\* the allocation that takes more from the goal "Salary" than the income of month 0
OverAllocation == Allocation("u1", 1, 10, MaxAmount, startOfMonth(0))

\* One client on the Dashboard.  Either the goal table is full and the transactions
\* vary, in every zone, or the goals vary for a user in UTC.
InitDash ==
    /\ transactions = SetToBag({BaseTxn})
    /\ \/ /\ tz \in {"utc", "west", "east"}
          /\ household_members = Members
          /\ monthly_budgets = {BaseGoal, HouseholdGoal, GroceriesGoal,
                                Budget(11, "u1", "h1", "expense", "Groceries", startOfMonth(0), 1)}
          /\ budget_allocations \in {EmptyBag, SetToBag({OverAllocation})}
       \/ /\ tz = "utc"
          /\ household_members \in MembershipStores
          /\ monthly_budgets = {BaseGoal, HouseholdGoal, GroceriesGoal}
          /\ budget_allocations = EmptyBag
    /\ households = HouseholdsOf(household_members)
    /\ cf = IdleCall
    /\ session = [c \in Clients |-> IF c = "c1" THEN "u1" ELSE NULL]
    /\ route = [c \in Clients |-> IF c = "c1" THEN "/dashboard" ELSE "/auth"]
    /\ ga = [c \in Clients |-> IdleGA]
    /\ bia = [c \in Clients |-> IdleBIA]
    /\ dash \in {f \in [Clients -> {IdleDash} \cup DashFetch("u1", "/dashboard", "individual", Today)] :
                    f["c1"] # IdleDash /\ f["c2"] = IdleDash}
    /\ lastOp = NoOp
    /\ NoInvitations
    /\ NoHook

NextDash ==
    \/ AddTransaction
    \/ DeleteTransaction
    \/ AddBudget
    \/ SetDashScope
    \/ SetDashMonth
    \/ NavigateDash

SpecDash == InitDash /\ [][NextDash]_vars

\* ---- households ---------------------------------------------------------------
MaxHouseholds == 4

\* gen_random_uuid(): an id no household row has
HouseholdName(n) ==
    IF n = 1 THEN "h1" ELSE IF n = 2 THEN "h2" ELSE IF n = 3 THEN "h3" ELSE IF n = 4 THEN "h4" ELSE "h5"
NewHouseholdId ==
    HouseholdName(CHOOSE n \in 1..(Cardinality(households) + 1) :
                     /\ \A h \in households : h.id # HouseholdName(n)
                     /\ \A k \in 1..(n - 1) : \E h \in households : h.id = HouseholdName(k))

\* trigger on_household_created AFTER INSERT ON households, add_creator_to_household():
\* the rows it inserts into household_members for the new row (NEW in the function)
add_creator_to_householdMut(new) ==
    {[household_id |-> new.id, user_id |-> new.created_by, role |-> "member"]}
add_creator_to_household(new) ==
    {[household_id |-> new.id, user_id |-> new.created_by, role |-> "admin"]}

\* is_household_admin(auth.uid(), household_id)
is_household_admin(uid, hid) ==
    \E m \in household_members : m.user_id = uid /\ m.household_id = hid /\ m.role = "admin"

\* fetchHouseholds, "1. Get all memberships": the rows of the user
MembershipsOf(members, uid) == {m \in members : m.user_id = uid}

\* fetchHouseholds on success, given the household_members table and the stored
\* activeHouseholdId: the hook state and the persisted id it leaves.  households[0]
\* is the first row of a query without an order, so each household can be the first.
fetchHouseholdsDataMut(members, uid, storedHouseholdId) ==
    LET memberships == MembershipsOf(members, uid)
        ids == {m.household_id : m \in memberships}
        roleIn(id) == (CHOOSE m \in memberships : m.household_id = id).role
    IN IF memberships # {}
       THEN {[hook |-> [household |-> activeId, userRole |-> roleIn(activeId), myHouseholds |-> ids],
              activeHouseholdId |-> activeId] : activeId \in ids}
       ELSE {[hook |-> IdleHook, activeHouseholdId |-> NULL]}
fetchHouseholdsData(members, uid, storedHouseholdId) ==
    LET memberships == MembershipsOf(members, uid)
        ids == {m.household_id : m \in memberships}
        roleIn(id) == (CHOOSE m \in memberships : m.household_id = id).role
    IN IF memberships # {}
       THEN {[hook |-> [household |-> activeId, userRole |-> roleIn(activeId), myHouseholds |-> ids],
              activeHouseholdId |-> activeId] :
                 activeId \in IF storedHouseholdId \in ids THEN {storedHouseholdId} ELSE ids}
       ELSE {[hook |-> IdleHook, activeHouseholdId |-> NULL]}

\* what a call of fetchHouseholds leaves of (hook state, persisted id); with w = "error"
\* the memberships query fails and the function returns before any setter
fetchHouseholdsOutcomes(members, uid, state, w) ==
    IF w = "ok" THEN fetchHouseholdsData(members, uid, state.activeHouseholdId) ELSE {state}

\* switchHousehold(householdId) of a render whose myHouseholds is the closure's list:
\* what it leaves of (hook state, persisted id), its trailing fetchHouseholds() included
switchHouseholdOutcomes(myHouseholds, members, uid, state, householdId, w) ==
    IF householdId \notin myHouseholds
    THEN {state}
    ELSE fetchHouseholdsOutcomes(members, uid,
             [hook |-> [state.hook EXCEPT !.household = householdId],
              activeHouseholdId |-> householdId], w)

\* the hook state and the persisted id of a client
HookState(c) == [hook |-> hook[c], activeHouseholdId |-> localStorage[c].activeHouseholdId]
SetHookState(c, r) ==
    /\ hook' = [hook EXCEPT ![c] = r.hook]
    /\ localStorage' = [localStorage EXCEPT ![c].activeHouseholdId = r.activeHouseholdId]

\* useEffect(() => fetchHouseholds(), []) and refreshHousehold()
fetchHouseholds(c, w) ==
    /\ UNCHANGED <<inviteVars, tz, store, cf, session, route, ga, bia, dash>>
    /\ IF w # "ok"
       THEN UNCHANGED <<hookVars, lastOp>>
       ELSE /\ \E r \in fetchHouseholdsOutcomes(household_members, session[c], HookState(c), w) :
                  SetHookState(c, r)
            /\ lastOp' = Op("fetchHouseholds", c, "loaded", 0, 0, 0, 0, 0, 0)

\* HouseholdSwitcher: onSelect -> switchHousehold(h.id); w is the outcome of the
\* memberships query of the trailing fetchHouseholds()
switchHousehold(c, householdId, w) ==
    /\ UNCHANGED <<inviteVars, tz, store, cf, session, route, ga, bia, dash>>
    /\ \E r \in switchHouseholdOutcomes(hook[c].myHouseholds, household_members, session[c],
                                        HookState(c), householdId, w) :
          SetHookState(c, r)
    /\ lastOp' = [Op("switchHousehold", c, IF householdId \in hook[c].myHouseholds
                                            THEN "switched" ELSE "ignored", 0, 0, 0, 0, 0, 0)
                     EXCEPT !.household = householdId, !.fetchOutcome = w]

\* useHousehold().createHousehold(name): the insert into households (the trigger runs
\* in the statement's transaction), await fetchHouseholds(), switchHousehold(data.id).
\* w is the outcome of the insert, wf and ws of the two memberships queries.  The
\* switchHousehold called is the one of the render the handler was created in, so
\* its myHouseholds is the list of before the call.
createHousehold(c, w, wf, ws) ==
    /\ UNCHANGED <<inviteVars, tz, transactions, monthly_budgets, budget_allocations, cf, session, route,
                   ga, bia, dash>>
    /\ IF w # "ok"
       THEN UNCHANGED <<households, household_members, lastOp, hookVars>>
       ELSE /\ Cardinality(households) < MaxHouseholds
            /\ \E data \in {Household(NewHouseholdId, session[c])} :
                  \E members \in {household_members \cup add_creator_to_household(data)} :
                      /\ households' = households \cup {data}
                      /\ household_members' = members
                      /\ \E r1 \in fetchHouseholdsOutcomes(members, session[c], HookState(c), wf) :
                           \E r2 \in switchHouseholdOutcomes(hook[c].myHouseholds, members, session[c],
                                                             r1, data.id, ws) :
                               SetHookState(c, r2)
                      /\ lastOp' = [Op("createHousehold", c, "created", 0, 0, 0, 0, 0, 0)
                                       EXCEPT !.household = data.id, !.fetchOutcome = wf,
                                              !.switchOutcome = IF data.id \in hook[c].myHouseholds
                                                                THEN "switched" ELSE "ignored"]

\* HouseholdSettings.handlePromoteToAdmin for a member row of the active household;
\* the button is shown to an admin next to the other users with role "member"
handlePromoteToAdmin(c, member) ==
    /\ is_household_admin(session[c], member.household_id)
    /\ member.user_id # session[c]
    /\ member.role = "member"
    /\ household_members' = (household_members \ {member}) \cup {[member EXCEPT !.role = "admin"]}
    /\ lastOp' = Op("promoteToAdmin", c, "updated", 0, 0, 0, 0, 0, 0)
    /\ UNCHANGED <<inviteVars, hookVars, tz, transactions, monthly_budgets, budget_allocations, households, cf, session,
                   route, ga, bia, dash>>

\* HouseholdSettings.handleRemoveMember for a member row of the active household;
\* the button is shown to an admin next to every other user
handleRemoveMember(c, memberToRemove) ==
    /\ is_household_admin(session[c], memberToRemove.household_id)
    /\ memberToRemove.user_id # session[c]
    /\ household_members' = household_members \ {memberToRemove}
    /\ lastOp' = Op("removeMember", c, "deleted", 0, 0, 0, 0, 0, 0)
    /\ UNCHANGED <<inviteVars, hookVars, tz, transactions, monthly_budgets, budget_allocations, households, cf, session,
                   route, ga, bia, dash>>

\* a memberships query is issued, and has an outcome, only when the call gets to it
CreateInputs(c) ==
    {i \in [w : {"ok", "error"}, wf : {"ok", "error"}, ws : {"ok", "error"}] :
        /\ i.w = "error" => i.wf = "ok"
        /\ i.ws = "error" => (i.w = "ok" /\ hook[c].myHouseholds \ {h.id : h \in households} # {})}
CreateHousehold == \E c \in SignedIn : \E i \in CreateInputs(c) : createHousehold(c, i.w, i.wf, i.ws)
FetchHouseholds == \E c \in SignedIn, w \in {"ok", "error"} : fetchHouseholds(c, w)
SwitchHousehold ==
    \E c \in SignedIn : \E householdId \in hook[c].myHouseholds, w \in {"ok", "error"} :
        switchHousehold(c, householdId, w)
PromoteToAdmin == \E c \in SignedIn, member \in household_members : handlePromoteToAdmin(c, member)
RemoveMember == \E c \in SignedIn, member \in household_members : handleRemoveMember(c, member)

\* useHousehold() of every signed-in client has mounted and loaded with nothing
\* persisted before
HookMounted ==
    \E f \in [Clients -> UNION {fetchHouseholdsData(household_members, u, NULL) : u \in Users}
                          \cup {[hook |-> IdleHook, activeHouseholdId |-> NULL]}] :
        /\ \A c \in Clients :
               IF session[c] = NULL THEN f[c] = [hook |-> IdleHook, activeHouseholdId |-> NULL]
               ELSE f[c] \in fetchHouseholdsData(household_members, session[c], NULL)
        /\ hook = [c \in Clients |-> f[c].hook]
        /\ localStorage = [c \in Clients |->
                              [IdleStorage EXCEPT !.activeHouseholdId = f[c].activeHouseholdId]]

\* Two signed-in users; no household yet, or household h1 of u1 with member u2
InitHH ==
    /\ tz = "utc"
    /\ \/ households = {} /\ household_members = {}
       \/ households = HouseholdRows /\ household_members = Members
    /\ transactions = EmptyBag
    /\ monthly_budgets = {}
    /\ budget_allocations = EmptyBag
    /\ cf = IdleCall
    /\ session = [c \in Clients |-> IF c = "c1" THEN "u1" ELSE "u2"]
    /\ route = [c \in Clients |-> "/dashboard"]
    /\ ga = [c \in Clients |-> IdleGA]
    /\ bia = [c \in Clients |-> IdleBIA]
    /\ dash = [c \in Clients |-> IdleDash]
    /\ lastOp = NoOp
    /\ NoInvitations
    /\ HookMounted

NextHH == CreateHousehold \/ PromoteToAdmin \/ RemoveMember \/ FetchHouseholds \/ SwitchHousehold

SpecHH == InitHH /\ [][NextHH]_vars

\* ---- invitations ---------------------------------------------------------------
MaxInvitations == 2
MaxNow == 1
\* expires_at DEFAULT (NOW() + INTERVAL '7 days'); the clock counts weeks
ExpiryInterval == 1

\* token UUID DEFAULT uuid_generate_v4(): a token no row has
TokenName(n) == IF n = 1 THEN "t1" ELSE IF n = 2 THEN "t2" ELSE "t3"
Tokens == {TokenName(n) : n \in 1..MaxInvitations}
NewToken == TokenName(Cardinality(household_invitations) + 1)

\* a household_invitations row; id and token are both generated and unique, and one
\* value stands for the pair
Invitation(token, household_id, role, created) ==
    [id |-> token, token |-> token, household_id |-> household_id, role |-> role,
     status |-> "pending", expires_at |-> created + ExpiryInterval]

\* WHERE token = lookup_token AND status = 'pending' AND expires_at > NOW()
LookupInviteMut(invitations, clock, lookup_token) ==
    {i \in invitations : i.token = lookup_token /\ i.expires_at > clock}
LookupInvite(invitations, clock, lookup_token) ==
    {i \in invitations : i.token = lookup_token /\ i.status = "pending" /\ i.expires_at > clock}

\* get_invitation_by_token(lookup_token); every invitation has its household row
get_invitation_by_token(lookup_token) == LookupInvite(household_invitations, now, lookup_token)

\* EXISTS (SELECT 1 FROM household_members WHERE household_id = ... AND user_id = ...)
IsMember(members, household_id, user_id) ==
    \E m \in members : m.household_id = household_id /\ m.user_id = user_id

\* INSERT INTO household_members (household_id, user_id, role) VALUES (...)
NewMember(invite_record, current_user_id) ==
    [household_id |-> invite_record.household_id, user_id |-> current_user_id,
     role |-> invite_record.role]

\* UPDATE household_invitations SET status = 'accepted' WHERE id = invite_record.id
MarkAccepted(invitations, invite_record) ==
    {IF i.id = invite_record.id THEN [i EXCEPT !.status = "accepted"] ELSE i : i \in invitations}

\* the pages of the invitation flow leave the other pages and the hook alone
InviteFrame ==
    UNCHANGED <<tz, transactions, monthly_budgets, budget_allocations, households, cf, ga, bia,
                dash, hook>>

\* InviteMemberDialog.handleInvite for the active household; the insert policy admits
\* admins of the household only, and a rejected insert changes nothing
handleInvite(c, role) ==
    /\ household(session[c]) # NULL
    /\ is_household_admin(session[c], household(session[c]))
    /\ Cardinality(household_invitations) < MaxInvitations
    /\ household_invitations' =
           household_invitations \cup {Invitation(NewToken, household(session[c]), role, now)}
    /\ lastOp' = Op("handleInvite", c, "created", 0, 0, 0, 0, 0, 0)
    /\ InviteFrame
    /\ UNCHANGED <<household_members, now, acceptInvite, rpc, accepted, effects, localStorage,
                   session, route>>

\* NOW() advances
Tick ==
    /\ now < MaxNow
    /\ now' = now + 1
    /\ lastOp' = Op("tick", "c1", "none", 0, 0, 0, 0, 0, 0)
    /\ InviteFrame
    /\ UNCHANGED <<household_members, household_invitations, acceptInvite, rpc, accepted, effects,
                   localStorage, session, route>>

\* AcceptInvite mounts with :token and runs verifyInvite: where the client ends up, the
\* state of the page and the stored pendingInviteToken.  w is the outcome of the
\* get_invitation_by_token request.
verifyInvite(c, token, w) ==
    IF session[c] = NULL
    THEN [route |-> "/auth", page |-> IdleAcceptInvite, pendingInviteToken |-> token]
    ELSE [route |-> "/accept-invite",
          page |-> [token |-> token,
                    status |-> IF w = "ok" /\ get_invitation_by_token(token) # {}
                               THEN "idle" ELSE "error"],
          pendingInviteToken |-> localStorage[c].pendingInviteToken]

\* the client lands where verifyInvite leaves it
Land(c, r) ==
    /\ route' = [route EXCEPT ![c] = r.route]
    /\ acceptInvite' = [acceptInvite EXCEPT ![c] = r.page]
    /\ localStorage' = [localStorage EXCEPT ![c].pendingInviteToken = r.pendingInviteToken]

\* the user opens the link /accept-invite/:token
openInviteLink(c, token, w) ==
    /\ rpc[c].pc = "idle"
    /\ \E r \in {verifyInvite(c, token, w)} :
          /\ Land(c, r)
          /\ lastOp' = Op("verifyInvite", c, IF r.route = "/auth" THEN "auth" ELSE r.page.status,
                          0, 0, 0, 0, 0, 0)
    /\ InviteFrame
    /\ UNCHANGED <<household_members, household_invitations, now, rpc, accepted, effects, session>>

\* the user signs in on /auth (the page is not part of the sources: the session is
\* set and the client stays where it is)
signIn(c, uid) ==
    /\ route[c] = "/auth"
    /\ session[c] = NULL
    /\ session' = [session EXCEPT ![c] = uid]
    /\ lastOp' = Op("signIn", c, "signedIn", 0, 0, 0, 0, 0, 0)
    /\ InviteFrame
    /\ UNCHANGED <<household_members, household_invitations, now, acceptInvite, rpc, accepted,
                   effects, localStorage, route>>

\* navigate("/dashboard") ("Go to Dashboard", "Cancel", the address bar): Dashboard
\* mounts and its auth effect is scheduled
goToDashboard(c) ==
    /\ rpc[c].pc = "idle"
    /\ "dashboardAuth" \notin effects[c]
    /\ route' = [route EXCEPT ![c] = "/dashboard"]
    /\ acceptInvite' = [acceptInvite EXCEPT ![c] = IdleAcceptInvite]
    /\ effects' = [effects EXCEPT ![c] = @ \cup {"dashboardAuth"}]
    /\ lastOp' = Op("navigate", c, "/dashboard", 0, 0, 0, 0, 0, 0)
    /\ InviteFrame
    /\ UNCHANGED <<household_members, household_invitations, now, rpc, accepted, localStorage,
                   session>>

\* Dashboard: supabase.auth.getSession().then(...) / onAuthStateChange
dashboardAuthEffect(c, w) ==
    /\ "dashboardAuth" \in effects[c]
    /\ rpc[c].pc = "idle"
    /\ effects' = [effects EXCEPT ![c] = @ \ {"dashboardAuth"}]
    /\ IF session[c] = NULL
       THEN /\ route' = [route EXCEPT ![c] = "/auth"]
            /\ acceptInvite' = [acceptInvite EXCEPT ![c] = IdleAcceptInvite]
            /\ UNCHANGED localStorage
            /\ lastOp' = Op("dashboardAuth", c, "auth", 0, 0, 0, 0, 0, 0)
       ELSE IF localStorage[c].pendingInviteToken # NULL
       THEN /\ Land(c, verifyInvite(c, localStorage[c].pendingInviteToken, w))
            /\ lastOp' = Op("dashboardAuth", c, "redirected", 0, 0, 0, 0, 0, 0)
       ELSE /\ UNCHANGED <<route, acceptInvite, localStorage>>
            /\ lastOp' = Op("dashboardAuth", c, "stayed", 0, 0, 0, 0, 0, 0)
    /\ InviteFrame
    /\ UNCHANGED <<household_members, household_invitations, now, rpc, accepted, session>>

\* setTimeout(() => navigate("/dashboard"), 2000) of handleAccept
redirectTimer(c) ==
    /\ "redirectTimer" \in effects[c]
    /\ rpc[c].pc = "idle"
    /\ route' = [route EXCEPT ![c] = "/dashboard"]
    /\ acceptInvite' = [acceptInvite EXCEPT ![c] = IdleAcceptInvite]
    /\ effects' = [effects EXCEPT ![c] = (@ \ {"redirectTimer"}) \cup {"dashboardAuth"}]
    /\ lastOp' = Op("redirectTimer", c, "/dashboard", 0, 0, 0, 0, 0, 0)
    /\ InviteFrame
    /\ UNCHANGED <<household_members, household_invitations, now, rpc, accepted, localStorage,
                   session>>

\* handleAccept after the response: outcome "accepted" for success = true, "rejected"
\* for success = false, "failed" for an error of the request
AcceptResponded(c, lookup_token, outcome) ==
    /\ accepted' = IF outcome = "accepted"
                   THEN accepted \cup {[lookup_token |-> lookup_token, user_id |-> session[c]]}
                   ELSE accepted
    /\ acceptInvite' = [acceptInvite EXCEPT ![c].status =
                            IF outcome = "accepted" THEN "success" ELSE "error"]
    /\ localStorage' = IF outcome = "accepted"
                       THEN [localStorage EXCEPT ![c].pendingInviteToken = NULL]
                       ELSE localStorage
    /\ effects' = IF outcome = "accepted"
                  THEN [effects EXCEPT ![c] = @ \cup {"redirectTimer"}]
                  ELSE effects
    /\ lastOp' = [Op("handleAccept", c, outcome, 0, 0, 0, 0, 0, 0) EXCEPT !.household = lookup_token]

\* handleAccept with accept_invitation(lookup_token) run as one transaction that no
\* other transaction overlaps; w is the outcome of the request
handleAccept(c, w) ==
    LET lookup_token == acceptInvite[c].token
        current_user_id == session[c]
        invite == LookupInvite(household_invitations, now, lookup_token)
    IN /\ route[c] = "/accept-invite"
       /\ acceptInvite[c].status = "idle"
       /\ rpc[c].pc = "idle"
       /\ InviteFrame
       /\ UNCHANGED <<now, rpc, session, route>>
       /\ IF w # "ok"
          THEN /\ AcceptResponded(c, lookup_token, "failed")
               /\ UNCHANGED <<household_members, household_invitations>>
          ELSE IF invite = {}
          THEN /\ AcceptResponded(c, lookup_token, "rejected")
               /\ UNCHANGED <<household_members, household_invitations>>
          ELSE \E invite_record \in invite :
                  IF IsMember(household_members, invite_record.household_id, current_user_id)
                  THEN /\ AcceptResponded(c, lookup_token, "rejected")
                       /\ UNCHANGED <<household_members, household_invitations>>
                  ELSE /\ household_members' =
                              household_members \cup {NewMember(invite_record, current_user_id)}
                       /\ household_invitations' = MarkAccepted(household_invitations, invite_record)
                       /\ AcceptResponded(c, lookup_token, "accepted")

\* a link exists for the invitations that were created; each browser has its user
UserOf(c) == IF c = "c1" THEN "u1" ELSE "u2"

HandleInvite == \E c \in SignedIn, role \in {"admin", "member"} : handleInvite(c, role)
OpenInviteLink ==
    \E c \in Clients, i \in household_invitations, w \in {"ok", "error"} : openInviteLink(c, i.token, w)
SignIn == \E c \in Clients : signIn(c, UserOf(c))
GoToDashboard == \E c \in Clients : goToDashboard(c)
DashboardAuthEffect == \E c \in Clients, w \in {"ok", "error"} : dashboardAuthEffect(c, w)
RedirectTimer == \E c \in Clients : redirectTimer(c)
HandleAccept == \E c \in SignedIn, w \in {"ok", "error"} : handleAccept(c, w)

\* Household h1 of a user who has sent the link of a first invitation to u1 and u2;
\* both browsers are signed out.
Owner == "u0"
InitInv ==
    /\ tz = "utc"
    /\ households = {Household("h1", Owner)}
    /\ household_members = {[household_id |-> "h1", user_id |-> Owner, role |-> "admin"]}
    /\ transactions = EmptyBag
    /\ monthly_budgets = {}
    /\ budget_allocations = EmptyBag
    /\ cf = IdleCall
    /\ session = [c \in Clients |-> NULL]
    /\ route = [c \in Clients |-> "/auth"]
    /\ ga = [c \in Clients |-> IdleGA]
    /\ bia = [c \in Clients |-> IdleBIA]
    /\ dash = [c \in Clients |-> IdleDash]
    /\ lastOp = NoOp
    /\ \E role \in {"admin", "member"} :
           household_invitations = {Invitation(TokenName(1), "h1", role, 0)}
    /\ now = 0
    /\ acceptInvite = [c \in Clients |-> IdleAcceptInvite]
    /\ rpc = [c \in Clients |-> IdleRpc]
    /\ accepted = {}
    /\ effects = [c \in Clients |-> {}]
    /\ NoHook

NextInv ==
    \/ HandleInvite \/ Tick \/ OpenInviteLink \/ SignIn \/ GoToDashboard \/ DashboardAuthEffect
    \/ RedirectTimer \/ HandleAccept

SpecInv == InitInv /\ [][NextInv]_vars

\* the callbacks the browser has scheduled run
SpecInvFair ==
    /\ SpecInv
    /\ \A c \in Clients : WF_vars(\E w \in {"ok", "error"} : dashboardAuthEffect(c, w))
    /\ \A c \in Clients : WF_vars(redirectTimer(c))

\* ---- accept_invitation, statement by statement -----------------------------------
\* Each call runs in a transaction of its own under READ COMMITTED: every statement
\* reads what is committed when it runs, and the writes of the call become visible
\* to the others when the function returns.
RaceFrame ==
    /\ InviteFrame
    /\ UNCHANGED <<now, session, route>>

\* the call has not returned: nothing changes in the browser or in the tables
StatementDone(c, pc, invite_record) ==
    /\ rpc' = [rpc EXCEPT ![c] = [@ EXCEPT !.pc = pc, !.invite_record = invite_record]]
    /\ lastOp' = Op("accept_invitation", c, pc, 0, 0, 0, 0, 0, 0)
    /\ UNCHANGED <<household_members, household_invitations, accepted, acceptInvite, localStorage,
                   effects>>

\* the call returns (or raises) without having written
ReturnedWithoutWrite(c, outcome) ==
    /\ rpc' = [rpc EXCEPT ![c] = IdleRpc]
    /\ AcceptResponded(c, rpc[c].lookup_token, outcome)
    /\ UNCHANGED <<household_members, household_invitations>>

\* handleAccept: supabase.rpc("accept_invitation", {lookup_token: token}) is sent
callAccept(c) ==
    /\ route[c] = "/accept-invite"
    /\ acceptInvite[c].status = "idle"
    /\ rpc[c].pc = "idle"
    /\ rpc' = [rpc EXCEPT ![c] = [pc |-> "select", lookup_token |-> acceptInvite[c].token,
                                  invite_record |-> {}]]
    /\ lastOp' = Op("accept_invitation", c, "called", 0, 0, 0, 0, 0, 0)
    /\ RaceFrame
    /\ UNCHANGED <<household_members, household_invitations, accepted, acceptInvite, localStorage,
                   effects>>

\* SELECT * INTO invite_record ...; IF invite_record IS NULL THEN RETURN success = false
acceptSelect(c) ==
    /\ rpc[c].pc = "select"
    /\ RaceFrame
    /\ \E invite \in {LookupInvite(household_invitations, now, rpc[c].lookup_token)} :
          IF invite = {}
          THEN ReturnedWithoutWrite(c, "rejected")
          ELSE StatementDone(c, "check", invite)

\* IF EXISTS (SELECT 1 FROM household_members ...) THEN RETURN success = false
acceptCheck(c) ==
    /\ rpc[c].pc = "check"
    /\ RaceFrame
    /\ \E invite_record \in rpc[c].invite_record :
          IF IsMember(household_members, invite_record.household_id, session[c])
          THEN ReturnedWithoutWrite(c, "rejected")
          ELSE StatementDone(c, "insert", rpc[c].invite_record)

\* INSERT INTO household_members: UNIQUE(household_id, user_id) makes the statement
\* wait for a transaction that has inserted the same key and not yet ended, and raise
\* unique_violation when the key is committed
acceptInsert(c) ==
    /\ rpc[c].pc = "insert"
    /\ RaceFrame
    /\ \E invite_record \in rpc[c].invite_record :
          /\ ~ \E d \in Clients \ {c} :
                   /\ rpc[d].pc = "update"
                   /\ session[d] = session[c]
                   /\ \E r \in rpc[d].invite_record : r.household_id = invite_record.household_id
          /\ IF IsMember(household_members, invite_record.household_id, session[c])
             THEN ReturnedWithoutWrite(c, "failed")
             ELSE StatementDone(c, "update", rpc[c].invite_record)

\* UPDATE household_invitations SET status = 'accepted' WHERE id = invite_record.id;
\* RETURN success = true; the transaction commits
acceptUpdate(c) ==
    /\ rpc[c].pc = "update"
    /\ RaceFrame
    /\ \E invite_record \in rpc[c].invite_record :
          /\ household_members' = household_members \cup {NewMember(invite_record, session[c])}
          /\ household_invitations' = MarkAccepted(household_invitations, invite_record)
    /\ rpc' = [rpc EXCEPT ![c] = IdleRpc]
    /\ AcceptResponded(c, rpc[c].lookup_token, "accepted")

CallAccept == \E c \in SignedIn : callAccept(c)
AcceptSelect == \E c \in Clients : acceptSelect(c)
AcceptCheck == \E c \in Clients : acceptCheck(c)
AcceptInsert == \E c \in Clients : acceptInsert(c)
AcceptUpdate == \E c \in Clients : acceptUpdate(c)

\* Two browsers, of two users or of one, show the pending invitation t1 to household h1
InitRace ==
    /\ tz = "utc"
    /\ households = {Household("h1", Owner)}
    /\ household_members = {[household_id |-> "h1", user_id |-> Owner, role |-> "admin"]}
    /\ transactions = EmptyBag
    /\ monthly_budgets = {}
    /\ budget_allocations = EmptyBag
    /\ cf = IdleCall
    /\ session \in {ss \in [Clients -> Users] : ss["c1"] = "u1"}
    /\ route = [c \in Clients |-> "/accept-invite"]
    /\ ga = [c \in Clients |-> IdleGA]
    /\ bia = [c \in Clients |-> IdleBIA]
    /\ dash = [c \in Clients |-> IdleDash]
    /\ lastOp = NoOp
    /\ \E role \in {"admin", "member"} :
           household_invitations = {Invitation(TokenName(1), "h1", role, 0)}
    /\ now = 0
    /\ acceptInvite = [c \in Clients |-> [token |-> TokenName(1), status |-> "idle"]]
    /\ rpc = [c \in Clients |-> IdleRpc]
    /\ accepted = {}
    /\ effects = [c \in Clients |-> {}]
    /\ NoHook

NextRace ==
    \/ CallAccept \/ AcceptSelect \/ AcceptCheck \/ AcceptInsert \/ AcceptUpdate
    \/ Tick \/ OpenInviteLink

SpecRace == InitRace /\ [][NextRace]_vars

\* ---- what the specification says the calculator computes -----------------
\* A row is in scope (user, household): individual scope is (user, household = null),
\* family scope is the household's partition.
InScope(row, userId, householdId) ==
    IF householdId = NULL
    THEN row.user_id = userId /\ row.household_id = NULL
    ELSE row.household_id = householdId

CategoryMatches(row, category) == category = ALL \/ row.category = category

\* I: income transactions of the scope dated strictly before the first day of month M
PriorIncome(userId, householdId, category, M) ==
    LET rows == {t \in BagToSet(transactions) :
                    /\ t.type = "income"
                    /\ InScope(t, userId, householdId)
                    /\ CategoryMatches(t, category)
                    /\ t.transaction_date < startOfMonth(M)}
    IN SumAmount(transactions, rows)

\* A: allocations against the income goals of the scope tagged strictly before M
PriorAllocated(userId, householdId, category, M) ==
    LET ids == {b.id : b \in {g \in monthly_budgets :
                                 /\ g.type = "income"
                                 /\ InScope(g, userId, householdId)
                                 /\ CategoryMatches(g, category)
                                 /\ g.month_year < startOfMonth(M)}}
        rows == {a \in BagToSet(budget_allocations) : a.income_budget_id \in ids}
    IN SumAllocated(budget_allocations, rows)

\* A query of the call failed (the allocations query is issued only when the
\* budgets query accepted rows).
QueryFailed ==
    \/ cf.q.txn # "ok"
    \/ cf.q.budget # "ok"
    \/ /\ cf.q.alloc # "ok"
       /\ BudgetQuery(cf.userId, cf.category, currentMonthStartOf(cf.currentMonth), cf.householdId) # {}

\* C1: every result of calculateCarryForward and of calculateTotalGlobalCarryForward
\* is >= 0, for every store, scope, month and category, also when the allocations
\* exceed the income and when a query fails.
C1_CarryForwardNonNegative == cf.done => cf.result >= 0

\* C1 witness: a completed call over a store whose allocations against prior income
\* goals exceed the prior income; the result is the clamp, 0.
C1_Witness ==
    /\ cf.done
    /\ cf.q = AllOk
    /\ PriorAllocated(cf.userId, cf.householdId, cf.category, cf.currentMonth)
         > PriorIncome(cf.userId, cf.householdId, cf.category, cf.currentMonth)
    /\ PriorIncome(cf.userId, cf.householdId, cf.category, cf.currentMonth) > 0
    /\ cf.result = 0

\* C2: when all queries succeed the result is max(0, I - A): I the income of the
\* scope (and category) dated strictly before the first day of M, A the allocations
\* against the scope's income goals tagged strictly before the first day of M,
\* whatever the allocations' own month tags.
C2_CarryForwardIsPriorSurplus ==
    (cf.done /\ cf.q = AllOk) =>
        cf.result = Max(0, PriorIncome(cf.userId, cf.householdId, cf.category, cf.currentMonth)
                           - PriorAllocated(cf.userId, cf.householdId, cf.category, cf.currentMonth))

\* C10: a call in which one of the issued queries failed returns 0, whichever
\* query it was and whatever the others accepted.
C10_FailedQueryYieldsZero == (cf.done /\ QueryFailed) => cf.result = 0

\* ---- what the specification says about allocations ------------------------
\* the budget goal an id refers to
GoalOf(id) == {b \in monthly_budgets : b.id = id}

\* total income recorded for a category in a scope
CategoryIncome(userId, householdId, category) ==
    LET rows == {t \in BagToSet(transactions) :
                    /\ t.type = "income"
                    /\ InScope(t, userId, householdId)
                    /\ t.category = category}
    IN SumAmount(transactions, rows)

\* total of the stored allocations against the income goals of a category in a scope
CategoryAllocated(userId, householdId, category) ==
    LET rows == {a \in BagToSet(budget_allocations) :
                    \E b \in GoalOf(a.income_budget_id) :
                        /\ b.type = "income"
                        /\ InScope(b, userId, householdId)
                        /\ b.category = category}
    IN SumAllocated(budget_allocations, rows)

\* total of the stored allocations whose income-side goal is the goal id
GoalAllocated(id) ==
    SumAllocated(budget_allocations,
                 {a \in BagToSet(budget_allocations) : a.income_budget_id = id})

\* the page of the client has just loaded its data
ViewFresh(c) ==
    /\ c \in OnPage("/goal-allocation")
    /\ \/ lastOp = NoOp
       \/ /\ lastOp.client = c
          /\ \/ lastOp.op \in {"fetchData", "navigate"}
             \/ lastOp.op = "handleAllocate" /\ lastOp.outcome = "created"

\* the calendar month a stored row is tagged for
RowsOfUserAndMonth(uid, M) ==
    {a \in BagToSet(budget_allocations) : a.user_id = uid /\ monthOf(a.month_year) = M}

\* C3: with one client and no transaction edits, after any sequence of
\* handleAllocate and saveAllocations with any month selections in between, the
\* allocations stored against the income goals of a category in a scope never
\* total more than the income transactions of that category in that scope.
C3_AllocationsBoundedByIncome ==
    \A sc \in Scopes, category \in INCOME_CATEGORIES :
        CategoryAllocated(sc.user_id, sc.household_id, category)
            <= CategoryIncome(sc.user_id, sc.household_id, category)

\* C4: a create-allocation request with all fields given, a positive amount and a
\* database that accepts the insert: with the amount equal to the available balance
\* shown it succeeds and the table gains exactly one allocation row; with the amount
\* one unit larger it is rejected as exceeding the balance and neither table changes.
C4_ExactBalanceAcceptedOneMoreRejected ==
    [][(/\ lastOp'.op = "handleAllocate"
        /\ lastOp'.outcome \notin {"missing", "invalid", "failed"})
       => /\ (lastOp'.amount = lastOp'.available) =>
                (/\ lastOp'.outcome = "created"
                 /\ BagCardinality(budget_allocations') = BagCardinality(budget_allocations) + 1)
          /\ (lastOp'.amount = lastOp'.available + 1) =>
                (/\ lastOp'.outcome = "exceeds"
                 /\ budget_allocations' = budget_allocations
                 /\ monthly_budgets' = monthly_budgets)]_vars

\* C4 witness: a request for exactly the available balance has just been accepted.
C4_Witness ==
    /\ lastOp.op = "handleAllocate"
    /\ lastOp.outcome = "created"
    /\ lastOp.amount = lastOp.available
    /\ lastOp.newAllocations = 1
    /\ GoalAllocated(lastOp.incomeId) >= lastOp.amount

\* C5: a request is checked against the balance its own page loaded, so every
\* request whose amount passes that check is inserted when the database accepts
\* the insert, whatever another client has inserted since the page was loaded.
C5_CheckReadsCachedBalance ==
    (/\ lastOp.op = "handleAllocate"
     /\ lastOp.outcome \notin {"missing", "invalid", "failed"}
     /\ lastOp.amount <= lastOp.available)
    => lastOp.outcome = "created"

\* C5 witness: two requests against one income goal have both been inserted, the
\* second one for more than the balance left when it ran, and the goal's
\* allocations total more than the income that was available before either.
C5_Witness ==
    /\ lastOp.op = "handleAllocate"
    /\ lastOp.outcome = "created"
    /\ lastOp.amount <= lastOp.available
    /\ lastOp.amount > lastOp.fresh
    /\ BagCardinality(budget_allocations) = 2
    /\ \E g \in GoalOf(lastOp.incomeId) :
          /\ \A a \in BagToSet(budget_allocations) : a.income_budget_id = g.id
          /\ GoalAllocated(g.id) > CategoryIncome(g.user_id, g.household_id, g.category)

\* The scenario of C6 after its first step: the only income goal is "Salary" of
\* month 0 in individual scope, every transaction is "Salary" income of that scope
\* dated in month 0, and one allocation was created against the goal in month 0.
C6_Scenario ==
    /\ {b \in monthly_budgets : b.type = "income"} = {BaseGoal}
    /\ \A t \in BagToSet(transactions) :
          /\ t.type = "income" /\ t.category = "Salary"
          /\ t.user_id = "u1" /\ t.household_id = NULL
          /\ monthOf(t.transaction_date) = 0
    /\ BagCardinality(budget_allocations) = 1
    /\ \A a \in BagToSet(budget_allocations) :
          /\ a.user_id = "u1"
          /\ a.income_budget_id = BaseGoal.id
          /\ a.month_year = startOfMonth(0)

\* T - a of the scenario
C6_Remaining ==
    SumAmount(transactions, BagToSet(transactions))
    - SumAllocated(budget_allocations, BagToSet(budget_allocations))

\* C6: in the scenario, right after the allocation of a <= T was created in month 0
\* the balance shown for "Salary" is T - a; the carry-forward of "Salary" into
\* month 1 is T - a; and a request made in month 1 from an up-to-date page for more
\* than T - a is rejected as exceeding the balance.
C6_EndToEnd ==
    C6_Scenario =>
        /\ (lastOp.op = "handleAllocate" /\ lastOp.outcome = "created") =>
              ga[lastOp.client].availableAmounts[BaseGoal.id] = C6_Remaining
        /\ calculateCarryForward("u1", "Salary", 1, NULL, AllOk) = C6_Remaining
        /\ (/\ lastOp.op = "handleAllocate"
            /\ lastOp.outcome \notin {"missing", "invalid"}
            /\ ga[lastOp.client].selectedMonth = 1
            /\ ga[lastOp.client].scope = "individual"
            /\ lastOp.available = lastOp.fresh
            /\ lastOp.amount > C6_Remaining) => lastOp.outcome = "exceeds"

\* C7 as stated: the balance a freshly loaded page shows for an income goal G is
\* the income of G's category and scope dated up to the end of G's month, minus
\* the stored allocations whose income-side goal is G.
C7_AvailableIsPerGoal ==
    \A c \in Clients : ViewFresh(c) =>
        \A id \in DOMAIN ga[c].availableAmounts : \A G \in GoalOf(id) :
            ga[c].availableAmounts[id] =
                SumAmount(transactions,
                          {t \in BagToSet(transactions) :
                              /\ t.type = "income"
                              /\ t.category = G.category
                              /\ InScope(t, G.user_id, G.household_id)
                              /\ t.transaction_date <= endOfMonth(monthOf(G.month_year))})
                - GoalAllocated(id)

\* C7 amended: the balance a freshly loaded page shows for an income source (goal
\* or virtual goal) is the income of its category in the page's scope dated up to
\* the end of the selected month, minus the allocations the signed-in user made,
\* tagged no later than the selected month, against any goal of that category that
\* carries the page's household reference.
C7_AvailableIsPerCategoryUpToSelectedMonth ==
    \A c \in Clients : ViewFresh(c) =>
        LET uid == session[c]
            v == ga[c]
            hh == IF v.scope = "family" THEN household(uid) ELSE NULL
        IN \A id \in DOMAIN v.availableAmounts :
              v.availableAmounts[id] =
                  SumAmount(transactions,
                            {t \in BagToSet(transactions) :
                                /\ t.type = "income"
                                /\ t.category = v.incomeBudgets[id]
                                /\ InScope(t, uid, hh)
                                /\ t.transaction_date <= endOfMonth(v.selectedMonth)})
                  - SumAllocated(budget_allocations,
                                 {a \in BagToSet(budget_allocations) :
                                     /\ a.user_id = uid
                                     /\ a.month_year <= startOfMonth(v.selectedMonth)
                                     /\ \E b \in GoalOf(a.income_budget_id) :
                                           /\ b.category = v.incomeBudgets[id]
                                           /\ b.household_id = hh
                                           /\ (b.user_id = uid \/ hh # NULL)})

\* C7 witness: a freshly loaded page shows a positive balance for a goal although
\* an allocation against that goal, tagged later than the selected month, is stored.
C7_Witness ==
    \E c \in Clients :
        /\ ViewFresh(c)
        /\ \E id \in DOMAIN ga[c].availableAmounts :
              /\ ga[c].availableAmounts[id] > 0
              /\ \E a \in BagToSet(budget_allocations) :
                    /\ a.income_budget_id = id
                    /\ a.month_year > startOfMonth(ga[c].selectedMonth)

\* C8: a bulk replace run in scope S for month M leaves every allocation row of
\* another month, and every row of the other scope, as it was.
C8_BulkReplaceTouchesOnlyScopeAndMonth ==
    [][lastOp'.op = "saveAllocations" =>
          LET c == lastOp'.client
              S == bia[c].scope
              M == bia[c].selectedMonth
              otherMonth(a) == monthOf(a.month_year) # M
              otherScope(a) == \E b \in GoalOf(a.income_budget_id) :
                                   IF S = "individual" THEN b.household_id # NULL
                                   ELSE b.household_id = NULL
          IN \A a \in BagToSet(budget_allocations) :
                (otherMonth(a) \/ otherScope(a)) =>
                    CopiesIn(a, budget_allocations') = CopiesIn(a, budget_allocations)]_vars

\* C9: when the delete request of a bulk replace succeeded and its insert request
\* failed, the operation reports failure and no allocation row of that user and
\* month is stored.
C9_FailedInsertLeavesMonthEmpty ==
    (/\ lastOp.op = "saveAllocations"
     /\ lastOp.deleteOutcome = "ok"
     /\ lastOp.insertOutcome = "error")
    => /\ lastOp.outcome = "failed"
       /\ RowsOfUserAndMonth(session[lastOp.client], bia[lastOp.client].selectedMonth) = {}

\* ---- what the specification says about scopes ------------------------------
\* everything the components of the two pages compute for a user in family scope
FamilyViews(uid) ==
    <<fetchTransactions(uid, "family"),
      [m \in Months |-> [type \in {"income", "expense"} |-> fetchAllocations(uid, "family", m, type)]],
      [m \in Months |-> fetchBudgets(uid, "family", m)],
      [m \in Months |-> fetchSummary(uid, "family", m)]>>

\* the step adds or removes transactions with household = null and nothing else
OnlyIndividualTransactionsChange ==
    /\ transactions' # transactions
    /\ UNCHANGED <<monthly_budgets, budget_allocations, household_members, households>>
    /\ \A t \in BagToSet(transactions) \cup BagToSet(transactions') :
          t.household_id # NULL => CopiesIn(t, transactions') = CopiesIn(t, transactions)

\* C11: a transaction stored with household = null and user U is accepted by the
\* transaction list of U in individual scope and by no list of another user or of
\* family scope, and adding or removing such a transaction changes nothing that a
\* component computes in family scope for a member of a household: no list, no
\* planned/actual breakdown, no carry-forward.
C11_IndividualRowsInvisibleInFamilyScope ==
    [][/\ \A t \in BagToSet(transactions') : t.household_id = NULL =>
             /\ t \in DOMAIN fetchTransactions(t.user_id, "individual")'
             /\ \A u \in Users :
                   /\ t \notin DOMAIN fetchTransactions(u, "family")'
                   /\ u # t.user_id => t \notin DOMAIN fetchTransactions(u, "individual")'
       /\ OnlyIndividualTransactionsChange =>
             \A u \in Users : household(u) # NULL => FamilyViews(u)' = FamilyViews(u)]_vars

\* C12: a family-scope call for household H by a member of H returns the surplus of
\* the household partition: the income transactions with household = H and the
\* allocations against H's income goals, recorded by every member of H, not only
\* the rows whose user id is the caller's.
C12_FamilyScopeCoversEveryMember ==
    (/\ cf.done
     /\ cf.q = AllOk
     /\ cf.householdId # NULL
     /\ cf.householdId \in get_user_household_ids(cf.userId)) =>
        cf.result = Max(0, PriorIncome(cf.userId, cf.householdId, cf.category, cf.currentMonth)
                           - PriorAllocated(cf.userId, cf.householdId, cf.category, cf.currentMonth))

\* ---- per-category and global carry-forward -------------------------------
\* the sum over all income categories of the per-category carry-forward of the last
\* call's scope and month
SumOfCategoryCarryForwards ==
    SumSet([c \in INCOME_CATEGORIES |->
               calculateCarryForward(cf.userId, c, cf.currentMonth, cf.householdId, AllOk)],
           INCOME_CATEGORIES)

\* what the calculator counts for a category: the income rows and the allocation
\* rows its queries return
CountedIncome(category) ==
    SumAmount(transactions,
              TransactionQuery(cf.userId, category, currentMonthStartOf(cf.currentMonth), cf.householdId))
CountedAllocated(category) ==
    LET budgets == BudgetQuery(cf.userId, category, currentMonthStartOf(cf.currentMonth), cf.householdId)
    IN SumAllocated(budget_allocations, AllocationQuery(cf.userId, {b.id : b \in budgets}))

GlobalCallDone ==
    cf.done /\ cf.fn = "calculateTotalGlobalCarryForward" /\ cf.q = AllOk

\* C13 as stated: whenever at least one category of the scope is over-allocated for
\* month M (its allocations against prior income goals exceed its prior income), the
\* sum of the per-category carry-forwards differs from the global carry-forward.
C13_OverAllocationImpliesDivergence ==
    (/\ GlobalCallDone
     /\ \E c \in INCOME_CATEGORIES :
           PriorAllocated(cf.userId, cf.householdId, c, cf.currentMonth)
             > PriorIncome(cf.userId, cf.householdId, c, cf.currentMonth)) =>
        SumOfCategoryCarryForwards # cf.result

\* C13 amended: the sum of the per-category carry-forwards is never less than the
\* global carry-forward of the same scope and month, and the two differ exactly when
\* one category is over-allocated (the allocations counted for it exceed the income
\* counted for it) while another category has a surplus.
C13_DivergenceNeedsDeficitAndSurplus ==
    GlobalCallDone =>
        /\ SumOfCategoryCarryForwards >= cf.result
        /\ SumOfCategoryCarryForwards # cf.result
             <=> \E c, d \in INCOME_CATEGORIES :
                    /\ CountedAllocated(c) > CountedIncome(c)
                    /\ CountedIncome(d) > CountedAllocated(d)

\* C13 witness: a global call over a store with an over-allocated category and a
\* category in surplus; the clamped per-category values add up to more than the
\* global value.
C13_Witness ==
    /\ GlobalCallDone
    /\ \E c, d \in INCOME_CATEGORIES :
          /\ CountedAllocated(c) > CountedIncome(c)
          /\ CountedIncome(d) > CountedAllocated(d)
    /\ SumOfCategoryCarryForwards > cf.result

\* ---- deleting a transaction ------------------------------------------------
\* the callers and household ids of the scopes a row belongs to
ScopesOfRow(t) ==
    IF t.household_id = NULL
    THEN {[userId |-> t.user_id, householdId |-> NULL]}
    ELSE {[userId |-> u, householdId |-> t.household_id] :
             u \in {x \in Users : t.household_id \in get_user_household_ids(x)}}

\* the step deletes one copy of row t
Deletes(t) ==
    /\ CopiesIn(t, transactions) > 0
    /\ transactions' = transactions (-) SetToBag({t})

\* C14: after an income transaction that is in scope and dated strictly before the
\* first day of month M is deleted, the next carry-forward computation for M (same
\* scope, the transaction's category) returns a value that differs from the value
\* computed before the deletion.
C14_DeletionChangesCarryForward ==
    [][\A t \in BagToSet(transactions) :
          (Deletes(t) /\ t.type = "income") =>
              \A M \in Months, sc \in ScopesOfRow(t) :
                  t.transaction_date < startOfMonth(M) =>
                      calculateCarryForward(sc.userId, t.category, M, sc.householdId, AllOk)'
                        # calculateCarryForward(sc.userId, t.category, M, sc.householdId, AllOk)]_vars

\* C14 where the surplus of the scope before the deletion covers the deleted amount,
\* so that max(0, I - A) itself changes
C14_DeletionChangesPositiveSurplus ==
    [][\A t \in BagToSet(transactions) :
          (Deletes(t) /\ t.type = "income") =>
              \A M \in Months, sc \in ScopesOfRow(t) :
                  (/\ t.transaction_date < startOfMonth(M)
                   /\ PriorIncome(sc.userId, sc.householdId, t.category, M)
                        - PriorAllocated(sc.userId, sc.householdId, t.category, M) >= t.amount) =>
                      calculateCarryForward(sc.userId, t.category, M, sc.householdId, AllOk)'
                        # calculateCarryForward(sc.userId, t.category, M, sc.householdId, AllOk)]_vars

\* ---- what the specification says about the Budget Aggregation View ----------
\* the household reference of a page scope of a user
ScopeHousehold(uid, scope) == IF scope = "family" THEN household(uid) ELSE NULL

\* the goals of a kind, scope and category whose window overlaps month M:
\* start_date <= month end and (end_date is null or end_date >= month start)
OverlappingGoals(uid, scope, type, category, M) ==
    {b \in monthly_budgets :
        /\ b.type = type
        /\ b.category = category
        /\ InScope(b, uid, ScopeHousehold(uid, scope))
        /\ b.start_date <= endOfMonth(M)
        /\ (b.end_date = {} \/ \E e \in b.end_date : e >= startOfMonth(M))}

PlannedTotal(uid, scope, type, category, M) ==
    LET goals == OverlappingGoals(uid, scope, type, category, M)
    IN SumSet([b \in goals |-> b.planned_amount], goals)

\* the clients whose page shows breakdowns
BreakdownClients == OnPage("/dashboard") \cup OnPage("/budget-planning")

\* C15: the planned amount the Budget Aggregation View reports for a category is the
\* sum of planned_amount over all goals of the kind and scope in that category whose
\* window overlaps the month, also when two or more goals of the category overlap it.
C15_PlannedIsSumOfOverlappingGoals ==
    \A c \in BreakdownClients : \A type \in DOMAIN dash[c].allocations :
        \A category \in DOMAIN dash[c].allocations[type] :
            dash[c].allocations[type][category].planned
              = PlannedTotal(session[c], dash[c].scope, type, category, dash[c].selectedMonth)

\* C15 for the categories with at most one overlapping goal
C15_PlannedOfSingleGoal ==
    \A c \in BreakdownClients : \A type \in DOMAIN dash[c].allocations :
        \A category \in DOMAIN dash[c].allocations[type] :
            Cardinality(OverlappingGoals(session[c], dash[c].scope, type, category,
                                         dash[c].selectedMonth)) <= 1 =>
                dash[c].allocations[type][category].planned
                  = PlannedTotal(session[c], dash[c].scope, type, category, dash[c].selectedMonth)

\* the rows the breakdowns of the pages show
BreakdownRows ==
    {[client |-> c, type |-> type, category |-> category] :
        c \in BreakdownClients, type \in {"income", "expense"},
        category \in INCOME_CATEGORIES \cup EXPENSE_CATEGORIES}

Shown(r) ==
    /\ r.type \in DOMAIN dash[r.client].allocations
    /\ r.category \in DOMAIN dash[r.client].allocations[r.type]

AllocationOf(r) == dash[r.client].allocations[r.type][r.category]

\* the transactions of a kind, scope and category dated within month M
MonthTransactions(uid, scope, type, category, M) ==
    {t \in BagToSet(transactions) :
        /\ t.type = type
        /\ t.category = category
        /\ InScope(t, uid, ScopeHousehold(uid, scope))
        /\ t.transaction_date >= startOfMonth(M)
        /\ t.transaction_date <= endOfMonth(M)}

\* the view of the page loaded from the present store
BreakdownFresh(c) ==
    \A type \in DOMAIN dash[c].allocations :
        dash[c].allocations[type]
          \in fetchAllocations(session[c], dash[c].scope, dash[c].selectedMonth, type)

\* C16, first and second part: a shown category is reported over-budget exactly when
\* planned > 0 and actual > planned, and then the overage is actual - planned; with
\* planned = 0 it is reported as "No budget", never as over-budget and never with a
\* percentage, an amount left or a progress bar.
C16_OverBudgetAndNoBudget ==
    \A r \in BreakdownRows : Shown(r) =>
        LET a == AllocationOf(r)
            v == renderAllocation(a)
        IN /\ (v.red /\ v.detail = "Over by") <=> (a.planned > 0 /\ a.actual > a.planned)
           /\ v.red <=> v.detail = "Over by"
           /\ v.detail = "Over by" => v.amount = a.actual - a.planned
           /\ a.planned = 0 =>
                 /\ v.label = "No budget"
                 /\ ~v.red
                 /\ v.detail = "none"
                 /\ ~v.progress

\* C16, third part: in a freshly loaded view a category that has a goal overlapping
\* the month or a transaction dated within the month is shown; without such a goal
\* its planned amount is 0, without such a transaction its actual amount is 0.
C16_MissingSideIsZero ==
    \A r \in BreakdownRows :
        LET c == r.client
            goals == OverlappingGoals(session[c], dash[c].scope, r.type, r.category,
                                      dash[c].selectedMonth)
            txns == MonthTransactions(session[c], dash[c].scope, r.type, r.category,
                                      dash[c].selectedMonth)
        IN (BreakdownFresh(c) /\ r.type \in DOMAIN dash[c].allocations
            /\ singleMembership(session[c]) = household(session[c])) =>
              /\ (goals # {} \/ txns # {}) => Shown(r)
              /\ (Shown(r) /\ goals = {}) => AllocationOf(r).planned = 0
              /\ (Shown(r) /\ txns = {}) => AllocationOf(r).actual = 0

\* C16: the three parts together
C16_AggregationViewReport == C16_OverBudgetAndNoBudget /\ C16_MissingSideIsZero

\* ---- virtual goals -----------------------------------------------------------
\* the income goals of a category in the scope of a client's Goal Allocation page
ScopeIncomeGoals(c, category) ==
    {b \in monthly_budgets :
        /\ b.type = "income"
        /\ b.category = category
        /\ InScope(b, session[c], ScopeHousehold(session[c], ga[c].scope))}

\* the income transactions of a category in the scope of the page, dated up to the
\* last day of the selected month
ScopeIncomeTransactions(c, category) ==
    {t \in BagToSet(transactions) :
        /\ t.type = "income"
        /\ t.category = category
        /\ InScope(t, session[c], ScopeHousehold(session[c], ga[c].scope))
        /\ t.transaction_date <= endOfMonth(ga[c].selectedMonth)}

\* the page offers the category as a virtual goal with planned amount 0
OfferedAsVirtual(c, category) ==
    /\ VirtualId(category) \in DOMAIN ga[c].incomeBudgets
    /\ ga[c].incomeBudgets[VirtualId(category)] = category
    /\ derivedIncomeBudget(session[c], ga[c].scope, VirtualId(category)).planned_amount = 0

\* the last step was a successful create-allocation against a virtual goal
MaterializedVirtualGoal ==
    /\ lastOp.op = "handleAllocate"
    /\ lastOp.outcome = "created"
    /\ lastOp.incomeId \in {VirtualId(c) : c \in INCOME_CATEGORIES}

\* C17: loading or refreshing the Goal Allocation view inserts no budget goal row; an
\* income category with transactions but no income goal is offered as a virtual goal
\* with planned amount 0; a successful create-allocation against a virtual goal
\* inserts exactly one income goal row (planned amount 0, the household reference of
\* the scope) and one allocation row that references the new goal's id, and after it
\* the page no longer offers the category as a virtual goal.
C17_VirtualGoalMaterializedOnFirstAllocation ==
    [][/\ lastOp'.op = "fetchData" => monthly_budgets' = monthly_budgets
       /\ \A c \in OnPage("/goal-allocation") : \A category \in INCOME_CATEGORIES :
             (ScopeIncomeTransactions(c, category) # {} /\ ScopeIncomeGoals(c, category) = {})
                 => OfferedAsVirtual(c, category)
       /\ MaterializedVirtualGoal' =>
             \E c \in {lastOp'.client}, category \in {VirtualCategory(lastOp'.incomeId)} :
                /\ OfferedAsVirtual(c, category)
                /\ \E g \in monthly_budgets' \ monthly_budgets :
                      /\ monthly_budgets' = monthly_budgets \cup {g}
                      /\ g.type = "income"
                      /\ g.category = category
                      /\ g.planned_amount = 0
                      /\ g.household_id = ScopeHousehold(session[c], ga[c].scope)
                      /\ \E a \in BagToSet(budget_allocations') :
                            /\ budget_allocations' = budget_allocations (+) SetToBag({a})
                            /\ a.income_budget_id = g.id
                /\ VirtualId(category) \notin DOMAIN ga'[c].incomeBudgets
                /\ \E id \in DOMAIN ga'[c].incomeBudgets :
                      ga'[c].incomeBudgets[id] = category /\ id > 0]_vars

\* C17 witness: a create-allocation against the virtual goal of a category succeeded;
\* the table holds the new goal with planned amount 0 and the page lists the
\* category under a goal id.
C17_Witness ==
    /\ MaterializedVirtualGoal
    /\ lastOp.newBudgets = 1
    /\ \E g \in monthly_budgets :
          /\ g.category = VirtualCategory(lastOp.incomeId)
          /\ g.planned_amount = 0
          /\ \E a \in BagToSet(budget_allocations) : a.income_budget_id = g.id
    /\ VirtualId(VirtualCategory(lastOp.incomeId)) \notin DOMAIN ga[lastOp.client].incomeBudgets

\* ---- the household reference of created rows -------------------------------
\* the rows a step of the two dialogs adds
CreatedRows ==
    {t \in BagToSet(transactions') : CopiesIn(t, transactions') > CopiesIn(t, transactions)}
    \cup (monthly_budgets' \ monthly_budgets)

\* C18: every transaction and every budget goal created while the page is in family
\* scope is stored with a household reference, and every one created in individual
\* scope with household = null, also for a user who belongs to several households or
\* whose membership lookup returns no single row.
C18_CreatedRowsCarryScopeHousehold ==
    [][\A c \in OnPage("/dashboard") \cup OnPage("/budget-planning") : \A r \in CreatedRows :
          /\ dash[c].scope = "family" => r.household_id # NULL
          /\ dash[c].scope = "individual" => r.household_id = NULL]_vars

\* C18 for the users with exactly one membership
C18_CreatedRowsOfSingleMembership ==
    [][\A c \in OnPage("/dashboard") \cup OnPage("/budget-planning") : \A r \in CreatedRows :
          Cardinality(get_user_household_ids(session[c])) = 1 =>
              /\ dash[c].scope = "family" => r.household_id = household(session[c])
              /\ dash[c].scope = "individual" => r.household_id = NULL]_vars

\* ---- month tags ---------------------------------------------------------------
\* d is the first day of a calendar month
FirstOfMonth(d) == \E m \in Months : d = startOfMonth(m)

\* C19: in every reachable store the month tag (month_year) of every budget goal row
\* and of every allocation row is the first day of a calendar month, whichever
\* operation created the row.
C19_MonthTagIsFirstOfMonth ==
    /\ \A b \in monthly_budgets : FirstOfMonth(b.month_year)
    /\ \A a \in BagToSet(budget_allocations) : FirstOfMonth(a.month_year)

\* C19 for the rows a step adds
C19_NewRowsTaggedFirstOfMonth ==
    [][/\ \A b \in monthly_budgets' \ monthly_budgets : FirstOfMonth(b.month_year)
       /\ \A a \in BagToSet(budget_allocations') :
             CopiesIn(a, budget_allocations') > CopiesIn(a, budget_allocations)
                 => FirstOfMonth(a.month_year)]_vars

\* ---- household creation -------------------------------------------------------
\* the membership of the creator of household h with role admin
CreatorMembership(h) == [household_id |-> h.id, user_id |-> h.created_by, role |-> "admin"]

\* C20: immediately after a household row is inserted, the membership row (that
\* household, its created_by user, role admin) exists, so the new household has at
\* least one admin.
C20_CreatorIsAdminAtCreation ==
    [][\A h \in households' \ households :
          /\ CreatorMembership(h) \in household_members'
          /\ \E m \in household_members' : m.household_id = h.id /\ m.role = "admin"]_vars

\* C20 witness: a household was just created next to an existing one; its creator
\* is its admin.
C20_Witness ==
    /\ lastOp.op = "createHousehold"
    /\ Cardinality(households) > 1
    /\ \E h \in households :
          /\ h.created_by = session[lastOp.client]
          /\ CreatorMembership(h) \in household_members
          /\ Cardinality({m \in household_members : m.household_id = h.id}) = 1

\* C20 as an ongoing invariant, which the claim does not assert: the creator of
\* every household is one of its admins in every state
C20_CreatorStaysAdmin == \A h \in households : CreatorMembership(h) \in household_members

\* ---- the carry-forward of the budget list -------------------------------------
\* the category of the goal row with an id
CategoryOfGoal(id) == (CHOOSE b \in monthly_budgets : b.id = id).category

\* C22: the carry-forward shown next to an income goal of the budget list is that of
\* the scope the list displays: in family scope the calculator's value for the
\* household (household id passed), in individual scope for (user, household = null).
C22_ListCarryForwardIsOfDisplayedScope ==
    \A c \in OnPage("/budget-planning") : \A id \in DOMAIN dash[c].budgets :
        dash[c].budgets[id]
          = calculateCarryForward(session[c], CategoryOfGoal(id), dash[c].selectedMonth,
                                  ScopeHousehold(session[c], dash[c].scope), AllOk)

\* C22 in individual scope only
C22_ListCarryForwardInIndividualScope ==
    \A c \in OnPage("/budget-planning") : \A id \in DOMAIN dash[c].budgets :
        dash[c].scope = "individual" =>
            dash[c].budgets[id]
              = calculateCarryForward(session[c], CategoryOfGoal(id), dash[c].selectedMonth,
                                      NULL, AllOk)

\* ---- bulk replace -----------------------------------------------------------------
\* an allocation entry without its owner and month tag
Triple(incomeId, expenseId, amount) == <<incomeId, expenseId, amount>>

\* the on-screen entries of a client that have an income goal selected and an
\* amount > 0, as a bag of triples
OnScreenEntries(c) ==
    LET ea == bia[c].expenseAllocations
        positions == UNION {{<<e, i>> : i \in DOMAIN ea[e]} : e \in DOMAIN ea}
        kept == {q \in positions : ea[q[1]][q[2]].incomeId # 0 /\ ea[q[1]][q[2]].amount > 0}
        tripleOf(q) == Triple(ea[q[1]][q[2]].incomeId, q[1], ea[q[1]][q[2]].amount)
    IN [t \in {tripleOf(q) : q \in kept} |-> Cardinality({q \in kept : tripleOf(q) = t})]

\* the stored allocation rows of a user tagged for calendar month M, as a bag of triples
StoredEntries(bag, uid, M) ==
    LET rows == {a \in BagToSet(bag) : a.user_id = uid /\ monthOf(a.month_year) = M}
        tripleOf(a) == Triple(a.income_budget_id, a.expense_budget_id, a.allocated_amount)
    IN [t \in {tripleOf(a) : a \in rows} |->
           SumSet([a \in rows |-> IF tripleOf(a) = t THEN bag[a] ELSE 0], rows)]

\* C26: a bulk replace that reports success leaves, for that user and month, exactly
\* the on-screen entries that have an income goal selected and an amount > 0: no row
\* of the previously stored set survives and no entry is stored twice, also when the
\* delete request accepted an error.
C26_SavedStoreIsOnScreenEntries ==
    [][(lastOp'.op = "saveAllocations" /\ lastOp'.outcome = "saved") =>
          \E c \in {lastOp'.client} :
              StoredEntries(budget_allocations', session[c], bia[c].selectedMonth)
                = OnScreenEntries(c)]_vars

\* C26 for the bulk replaces whose delete request succeeded
C26_SavedStoreAfterSuccessfulDelete ==
    [][(lastOp'.op = "saveAllocations" /\ lastOp'.outcome = "saved"
        /\ lastOp'.deleteOutcome = "ok") =>
          \E c \in {lastOp'.client} :
              StoredEntries(budget_allocations', session[c], bia[c].selectedMonth)
                = OnScreenEntries(c)]_vars

\* ---- failed create-allocation ----------------------------------------------------
\* C27: a create-allocation that ends with the failure outcome leaves the store
\* unchanged: no allocation row and no budget goal row has been added, also when the
\* income source was a virtual goal and the allocation insert failed after the goal
\* was inserted.
C27_FailedAllocateLeavesStoreUnchanged ==
    [][(lastOp'.op = "handleAllocate" /\ lastOp'.outcome = "failed") =>
          /\ budget_allocations' = budget_allocations
          /\ monthly_budgets' = monthly_budgets]_vars

\* C27 for the income sources that are goal rows
C27_FailedAllocateOfStoredGoal ==
    [][(lastOp'.op = "handleAllocate" /\ lastOp'.outcome = "failed" /\ lastOp'.incomeId > 0) =>
          /\ budget_allocations' = budget_allocations
          /\ monthly_budgets' = monthly_budgets]_vars

\* C27, the allocation rows only
C27_FailedAllocateAddsNoAllocation ==
    [][(lastOp'.op = "handleAllocate" /\ lastOp'.outcome = "failed") =>
          budget_allocations' = budget_allocations]_vars

\* ---- family scope and the allocations of the other members -----------------------
\* the allocations, by whichever member, against the income goals of a category of
\* the household that are tagged up to the selected month
HouseholdAllocated(householdId, selectedMonth, category) ==
    LET rows == {a \in BagToSet(budget_allocations) :
                    /\ ~(a.month_year > startOfMonth(selectedMonth))
                    /\ \E b \in GoalOf(a.income_budget_id) :
                          b.household_id = householdId /\ b.category = category}
    IN SumAllocated(budget_allocations, rows)

\* the clients whose page has just loaded the family scope of a household
FreshFamilyViews ==
    {c \in Clients : /\ ViewFresh(c)
                     /\ ga[c].scope = "family"
                     /\ household(session[c]) # NULL}

\* C28: in family scope the available balance a member is shown for an income
\* category is the household's income of the category minus the allocations every
\* member of the household made against the household's income goals of the category.
C28_FamilyBalanceSubtractsEveryMembersAllocations ==
    \A c \in FreshFamilyViews : \A id \in DOMAIN ga[c].availableAmounts :
        ga[c].availableAmounts[id] =
            GAIncome(session[c], "family", ga[c].selectedMonth, ga[c].incomeBudgets[id])
            - HouseholdAllocated(household(session[c]), ga[c].selectedMonth, ga[c].incomeBudgets[id])

\* C28 while every allocation against the household's goals is the viewer's own
C28_FamilyBalanceSubtractsOwnAllocations ==
    \A c \in FreshFamilyViews :
        (\A a \in BagToSet(budget_allocations) : a.user_id = session[c]) =>
            \A id \in DOMAIN ga[c].availableAmounts :
                ga[c].availableAmounts[id] =
                    GAIncome(session[c], "family", ga[c].selectedMonth, ga[c].incomeBudgets[id])
                    - HouseholdAllocated(household(session[c]), ga[c].selectedMonth,
                                         ga[c].incomeBudgets[id])


\* ---- carry-forward against the balance of the Goal Allocation page ---------------
\* the clients whose page has just loaded a month after which no transaction is dated
FreshViewsOfLastMonth ==
    {c \in Clients : /\ ViewFresh(c)
                     /\ \A t \in BagToSet(transactions) :
                            t.transaction_date <= endOfMonth(ga[c].selectedMonth)}

\* the carry-forward of a category into the month after the one the page shows
CarryForwardIntoNextMonth(c, category) ==
    calculateCarryForward(session[c], category, ga[c].selectedMonth + 1,
                          ScopeHousehold(session[c], ga[c].scope), AllOk)

\* C29: for every category and month M after which no transaction is dated, the
\* carry-forward of the category into month M+1 is max(0, the available balance the
\* Goal Allocation page shows for the category in month M), whatever the month tags
\* of the income goals and of the allocations.
C29_CarryForwardIsClampedAvailableBalance ==
    \A c \in FreshViewsOfLastMonth : \A id \in DOMAIN ga[c].availableAmounts :
        CarryForwardIntoNextMonth(c, ga[c].incomeBudgets[id]) = Max(0, ga[c].availableAmounts[id])

\* C29 in individual scope and in a zone at or behind UTC
C29_IndividualScopeBehindUTC ==
    \A c \in FreshViewsOfLastMonth : \A id \in DOMAIN ga[c].availableAmounts :
        (tz # "east" /\ ga[c].scope = "individual") =>
            CarryForwardIntoNextMonth(c, ga[c].incomeBudgets[id]) = Max(0, ga[c].availableAmounts[id])

\* C29 in individual scope and in a zone at or behind UTC, while every income goal
\* of the category and every allocation is tagged for the month shown or an earlier one
C29_TagsUpToTheMonthShown ==
    \A c \in FreshViewsOfLastMonth : \A id \in DOMAIN ga[c].availableAmounts :
        (/\ tz # "east"
         /\ ga[c].scope = "individual"
         /\ \A a \in BagToSet(budget_allocations) : monthOf(a.month_year) <= ga[c].selectedMonth
         /\ \A b \in monthly_budgets :
                (b.type = "income" /\ b.category = ga[c].incomeBudgets[id]) =>
                    monthOf(b.month_year) <= ga[c].selectedMonth)
        => CarryForwardIntoNextMonth(c, ga[c].incomeBudgets[id]) = Max(0, ga[c].availableAmounts[id])


\* ---- the active household ----------------------------------------------------------
\* a createHousehold that accepted the new row, all its queries having succeeded
CreatedBy(c) ==
    /\ lastOp'.op = "createHousehold"
    /\ lastOp'.outcome = "created"
    /\ lastOp'.fetchOutcome = "ok"
    /\ lastOp'.client = c

\* C23: after createHousehold(name) has completed successfully the new household is
\* the active household: the hook's household and the persisted activeHouseholdId
\* are the new household's id, whether or not the user belonged to a household before.
C23_CreatedHouseholdIsActive ==
    [][\A c \in Clients : CreatedBy(c) =>
           /\ hook'[c].household = lastOp'.household
           /\ localStorage'[c].activeHouseholdId = lastOp'.household]_vars

\* C23 for a user without a household before the call
C23_FirstHouseholdIsActive ==
    [][\A c \in Clients : (CreatedBy(c) /\ MembershipsOf(household_members, session[c]) = {}) =>
           /\ hook'[c].household = lastOp'.household
           /\ localStorage'[c].activeHouseholdId = lastOp'.household]_vars

\* what createHousehold does for a user whose hook shows an active household of theirs:
\* the active household stays the one of before the call
C23_ActiveHouseholdStays ==
    [][\A c \in Clients :
           (/\ CreatedBy(c)
            /\ hook[c].household # NULL
            /\ localStorage[c].activeHouseholdId = hook[c].household
            /\ \E m \in MembershipsOf(household_members, session[c]) :
                   m.household_id = hook[c].household) =>
           /\ hook'[c].household = hook[c].household
           /\ localStorage'[c].activeHouseholdId = hook[c].household]_vars

\* a handler of the client has just completed a fetchHouseholds
FetchCompleted(c) ==
    /\ lastOp.client = c
    /\ \/ lastOp.op = "fetchHouseholds" /\ lastOp.outcome = "loaded"
       \/ lastOp.op = "switchHousehold" /\ lastOp.outcome = "switched" /\ lastOp.fetchOutcome = "ok"
       \/ lastOp.op = "createHousehold" /\ lastOp.fetchOutcome = "ok"

\* the households the user is a member of
HouseholdIdsOf(uid) == {m.household_id : m \in MembershipsOf(household_members, uid)}

\* after a completed fetchHouseholds the active household is null exactly when the user
\* has no membership, and then nothing is persisted; otherwise it is one of the user's
\* households, persisted, and userRole is the user's role in it
ActiveHouseholdConsistent(c) ==
    LET memberships == MembershipsOf(household_members, session[c])
    IN /\ hook[c].household = NULL <=> memberships = {}
       /\ memberships = {} => localStorage[c].activeHouseholdId = NULL
       /\ memberships # {} =>
              \E m \in memberships :
                  /\ hook[c].household = m.household_id
                  /\ localStorage[c].activeHouseholdId = m.household_id
                  /\ hook[c].userRole = m.role

\* a persisted id that is among the user's households is kept by a fetchHouseholds of
\* the client, any other is replaced by a household of the user
PersistedIdKeptOrReplaced(c) ==
    (lastOp'.op = "fetchHouseholds" /\ lastOp'.client = c /\ HouseholdIdsOf(session[c]) # {}) =>
        IF localStorage[c].activeHouseholdId \in HouseholdIdsOf(session[c])
        THEN localStorage'[c].activeHouseholdId = localStorage[c].activeHouseholdId
        ELSE localStorage'[c].activeHouseholdId \in HouseholdIdsOf(session[c])

\* C24: after every completed fetchHouseholds the active household is null (exactly
\* when the user has no membership, with nothing persisted) or one of the user's
\* households, persisted, with userRole the user's role in it; a persisted id that is
\* not among the user's households is replaced; and switchHousehold with an id that is
\* not among the households the user is a member of changes nothing.
C24_ActiveHouseholdIsOneOfTheUsers ==
    [][\A c \in Clients :
           /\ FetchCompleted(c)' => ActiveHouseholdConsistent(c)'
           /\ PersistedIdKeptOrReplaced(c)
           /\ (/\ lastOp'.op = "switchHousehold"
               /\ lastOp'.client = c
               /\ lastOp'.household \notin HouseholdIdsOf(session[c]))
              => (hook'[c] = hook[c] /\ localStorage'[c] = localStorage[c])]_vars

\* C24 with the last part read for the list the hook holds: switchHousehold with an id
\* that is not in myHouseholds changes nothing (the call createHousehold makes with the
\* new id leaves what its fetchHouseholds left)
C24_SwitchOutsideMyHouseholdsChangesNothing ==
    [][\A c \in Clients :
           /\ FetchCompleted(c)' => ActiveHouseholdConsistent(c)'
           /\ PersistedIdKeptOrReplaced(c)
           /\ (lastOp'.op = "switchHousehold" /\ lastOp'.client = c /\ lastOp'.outcome = "ignored")
              => (hook'[c] = hook[c] /\ localStorage'[c] = localStorage[c])
           /\ (/\ lastOp'.op = "createHousehold"
               /\ lastOp'.client = c
               /\ lastOp'.switchOutcome = "ignored"
               /\ lastOp'.fetchOutcome = "error")
              => (hook'[c] = hook[c] /\ localStorage'[c] = localStorage[c])]_vars

\* createHousehold has called switchHousehold with an id outside the hook's list, after
\* a completed fetchHouseholds, for a user with two households
C24_Witness ==
    /\ lastOp.op = "createHousehold"
    /\ lastOp.switchOutcome = "ignored"
    /\ FetchCompleted(lastOp.client)
    /\ Cardinality(HouseholdIdsOf(session[lastOp.client])) = 2
    /\ hook[lastOp.client].household # lastOp.household


\* ---- accepting an invitation ---------------------------------------------------------
\* the step is a call of accept_invitation by the client that got a response with
\* success = true ("accepted") or success = false ("rejected")
AcceptReturned(c, outcome) ==
    /\ lastOp'.op = "handleAccept"
    /\ lastOp'.client = c
    /\ lastOp'.outcome = outcome
    /\ accepted' # accepted \/ acceptInvite'[c] # acceptInvite[c]

\* the invitations of the token that are pending and not expired
PendingInvitations(token) ==
    {i \in household_invitations : i.token = token /\ i.status = "pending" /\ i.expires_at > now}

\* the invitations that were accepted stay accepted
AcceptedStaysAccepted ==
    \A i \in household_invitations :
        i.status = "accepted" =>
            \A j \in household_invitations' : j.id = i.id => j.status = "accepted"

\* C21: accept_invitation(token) succeeds only when a pending, unexpired invitation
\* with that token exists and the caller is not a member of its household; on success
\* it inserts exactly one membership (the invitation's household, the caller, the
\* invitation's role) and sets the invitation's status to accepted; in every other
\* case it returns success = false and changes neither table; an accepted invitation
\* never returns to pending, so that a later call with the same token fails.
C21_AcceptOnlyPendingUnexpiredOnce ==
    [][/\ \A c \in Clients :
            LET token == acceptInvite[c].token
                acceptable == {i \in PendingInvitations(token) :
                                  ~ \E m \in household_members :
                                        m.household_id = i.household_id /\ m.user_id = session[c]}
            IN /\ AcceptReturned(c, "accepted") =>
                      \E i \in acceptable :
                          /\ household_members' = household_members \cup
                                 {[household_id |-> i.household_id, user_id |-> session[c],
                                   role |-> i.role]}
                          /\ Cardinality(household_members') = Cardinality(household_members) + 1
                          /\ household_invitations' =
                                 (household_invitations \ {i}) \cup {[i EXCEPT !.status = "accepted"]}
               /\ AcceptReturned(c, "rejected") =>
                      /\ acceptable = {}
                      /\ household_members' = household_members
                      /\ household_invitations' = household_invitations
               /\ (AcceptReturned(c, "accepted") \/ AcceptReturned(c, "rejected")) =>
                      \A i \in household_invitations :
                          (i.token = token /\ i.status = "accepted") => lastOp'.outcome = "rejected"
       /\ AcceptedStaysAccepted]_vars

\* a call with the token of an invitation accepted before has been rejected, the
\* membership of the first call being in the table
C21_Witness ==
    /\ lastOp.op = "handleAccept"
    /\ lastOp.outcome = "rejected"
    /\ \E i \in household_invitations :
           /\ i.token = lastOp.household
           /\ i.status = "accepted"
           /\ i.expires_at > now
           /\ \E a \in accepted : a.lookup_token = i.token /\ a.user_id # session[lastOp.client]

\* ---- the redirect between Dashboard and accept-invite ----------------------------------
\* the step is a Dashboard auth effect that sends the client to the accept-invite page
Redirected ==
    lastOp'.op = "dashboardAuth" /\ lastOp'.outcome = "redirected" /\ effects' # effects

\* the invitations a signed-in client could accept with the stored token
AcceptableWithStoredToken(c) ==
    {i \in PendingInvitations(localStorage[c].pendingInviteToken) :
        ~ \E m \in household_members : m.household_id = i.household_id /\ m.user_id = session[c]}

\* C25: once an invitation has been accepted successfully pendingInviteToken is absent
\* from local storage, so that the Dashboard no longer redirects to the accept-invite
\* page; from any state the user eventually stops being redirected between Dashboard
\* and accept-invite.
C25_RedirectsEventuallyStop ==
    /\ [][\A c \in Clients : AcceptReturned(c, "accepted") =>
              localStorage'[c].pendingInviteToken = NULL]_vars
    /\ <>[][~ Redirected]_vars

\* C25, the first part: a successful accept removes pendingInviteToken, and a Dashboard
\* auth effect of a client without a stored token does not redirect
C25_AcceptedClearsToken ==
    [][\A c \in Clients :
           /\ AcceptReturned(c, "accepted") => localStorage'[c].pendingInviteToken = NULL
           /\ (Redirected /\ lastOp'.client = c) => localStorage[c].pendingInviteToken # NULL]_vars

\* what keeps the redirect going: a signed-in client whose stored token belongs to no
\* invitation it could accept keeps the token until it accepts another invitation, and
\* every Dashboard auth effect of a signed-in client with a stored token redirects
C25_UnacceptableTokenStaysStored ==
    [][\A c \in Clients :
           /\ (/\ session[c] # NULL
               /\ localStorage[c].pendingInviteToken # NULL
               /\ AcceptableWithStoredToken(c) = {}
               /\ ~ AcceptReturned(c, "accepted"))
              => /\ localStorage'[c].pendingInviteToken = localStorage[c].pendingInviteToken
                 /\ AcceptableWithStoredToken(c)' = {}
           /\ (/\ lastOp'.op = "dashboardAuth"
               /\ lastOp'.client = c
               /\ effects'[c] # effects[c]
               /\ session[c] # NULL
               /\ localStorage[c].pendingInviteToken # NULL)
              => (lastOp'.outcome = "redirected" /\ route'[c] = "/accept-invite")]_vars

\* a signed-in client has been redirected with the token of an invitation that has
\* expired
C25_RedirectedWithExpiredInvitation ==
    /\ lastOp.op = "dashboardAuth"
    /\ lastOp.outcome = "redirected"
    /\ \E c \in {lastOp.client} :
           /\ session[c] # NULL
           /\ acceptInvite[c].status = "error"
           /\ \E i \in household_invitations :
                  i.token = localStorage[c].pendingInviteToken /\ i.expires_at <= now

\* ---- one invitation, one member -----------------------------------------------------
\* the membership rows accept_invitation has created
RowsFromInvitations == {m \in household_members : m.user_id # Owner}

\* C30: one invitation admits at most one new member: whatever the interleaving of the
\* accept_invitation calls made with one token by two different users, at most one
\* call returns success and at most one membership row is created from the invitation.
C30_OneInvitationOneMember ==
    /\ \A token \in Tokens : Cardinality({a \in accepted : a.lookup_token = token}) <= 1
    /\ Cardinality(RowsFromInvitations) <= Cardinality(household_invitations)

\* C30 for the calls of one user from two browsers
C30_OneUserJoinsOnce ==
    (session["c1"] = session["c2"]) =>
        /\ \A token \in Tokens : Cardinality({a \in accepted : a.lookup_token = token}) <= 1
        /\ Cardinality(RowsFromInvitations) <= Cardinality(household_invitations)

====
